---------------------------- MODULE Spec2Model ----------------------------
(***************************************************************************)
(* A model of copilot_log_converter.py: the turn grouper of                *)
(* process_chat_json (with is_continue_message) and the event classifier   *)
(* process_response_stream (with format_inline_reference).                 *)
(*                                                                         *)
(* Python strings are modelled as sequences of one-character strings, so   *)
(* that strip(), lower(), the `in` substring test, ''.join() and the       *)
(* f-string formatting are computed character by character.                *)
(***************************************************************************)
EXTENDS Integers, Sequences, FiniteSets, TLC

(***************************************************************************)
(* Bounds of the model.                                                    *)
(***************************************************************************)
\* the longest `requests` list of an input document
MaxTurns == 3
\* the longest `responses` list handed to process_response_stream
MaxEvents == 3
\* the most lines of a text handed to truncate_output
MaxLines == 20

\* the defaults of truncate_output's head_lines and tail_lines
HEAD_LINES == 5
TAIL_LINES == 5

VARIABLES
    \* ---- process_chat_json, grouping ----
    requests,       \* data.get('requests', [])
    gi,             \* the number of requests the grouping loop has consumed
    groups,         \* the list `groups`
    current_group,  \* the list `current_group`
    gpc,            \* position in process_chat_json
    \* ---- process_response_stream ----
    PROJECT_ROOT,   \* the module global read by to_relative_path
    responses,      \* the events the loop has consumed so far, in order
    result_parts,   \* the list `result_parts`
    current_text,   \* the list `current_text`
    text_src,       \* history: for each entry of current_text, its event's index
    part_src,       \* history: for each entry of result_parts, its events' indices
    spc             \* position in process_response_stream

VARIABLES
    \* ---- truncate_output ----
    tr_text,        \* the argument `text`
    tr_head,        \* the argument `head_lines`
    tr_tail,        \* the argument `tail_lines`
    tr_result,      \* the value returned
    tpc             \* "call" before the call, "done" after it

gvars == <<requests, gi, groups, current_group, gpc>>
svars == <<PROJECT_ROOT, responses, result_parts, current_text, text_src, part_src, spc>>
tvars == <<tr_text, tr_head, tr_tail, tr_result, tpc>>
\* the variables of the parts added after the grouper and the classifier
VARIABLES
    \* ---- process_chat_json, rendering the turns of a group ----
    config,         \* the dict `config`
    md_file,        \* the writes to the group's open file, in order
    first_turn,     \* the local `first_turn`
    turn_id,        \* the loop variable `turn_id`, 0 before the first turn
    seg,            \* the number of entries of `processed` consumed in this turn
    thinking_buffer,\* the local `thinking_buffer`
    thinking_src,   \* history: the positions in `processed` of the buffered items
    last_tool_name, \* the local `last_tool_name`, <<>> for None
    last_edit_path, \* the local `last_edit_path`
    tool_names,     \* history: tool_name at line 563, per serialized invocation
    rendered,       \* history: the entries of `processed` consumed, per turn
    rpc             \* "idle", "open", "turn" (in the loop of 503), "ended"

rvars == <<config, md_file, first_turn, turn_id, seg, thinking_buffer, thinking_src,
           last_tool_name, last_edit_path, tool_names, rendered, rpc>>
VARIABLES
    \* ---- process_chat_json, one run after another on one output path ----
    output_path,    \* the argument `output_path`, the same in every run
    out_dir_ok,     \* the output directory exists (files can be opened in it)
    session_file,   \* the sidecar file: [exists, content]
    turn_files,     \* the turn files in the output directory: [name, run, content]
    archive,        \* the archived files: [by, file], `by` the archiving run
    runs,           \* history: one record per run begun, the last one current
    upc             \* "idle" (no run in progress), "loaded" (at line 303),
                    \* "session" (at line 355)

fvars == <<output_path, out_dir_ok, session_file, turn_files, archive, runs, upc>>
xvars == <<tvars, rvars, fvars>>
vars == <<requests, gi, groups, current_group, gpc,
          PROJECT_ROOT, responses, result_parts, current_text, text_src, part_src, spc,
          xvars>>

\* truncate_output is not running
InitTruncIdle ==
    /\ tr_text = <<>>
    /\ tr_head = 0
    /\ tr_tail = 0
    /\ tr_result = <<>>
    /\ tpc = "idle"

\* the parts added after the grouper and the classifier are not running
InitRenderIdle ==
    /\ config = [no_edit_patch |-> FALSE, full_terminal |-> FALSE, html_style |-> FALSE]
    /\ md_file = <<>>
    /\ first_turn = TRUE
    /\ turn_id = 0
    /\ seg = 0
    /\ thinking_buffer = <<>>
    /\ thinking_src = <<>>
    /\ last_tool_name = <<>>
    /\ last_edit_path = [state |-> "unbound", path |-> <<>>]
    /\ tool_names = <<>>
    /\ rendered = <<>>
    /\ rpc = "idle"

InitRunIdle ==
    /\ output_path = <<>>
    /\ out_dir_ok = FALSE
    /\ session_file = [exists |-> FALSE, content |-> <<>>]
    /\ turn_files = {}
    /\ archive = {}
    /\ runs = <<>>
    /\ upc = "idle"

InitExtraIdle ==
    /\ InitTruncIdle
    /\ InitRenderIdle
    /\ InitRunIdle

(***************************************************************************)
(* Python str operations, on sequences of characters.                      *)
(***************************************************************************)
\* the backtick character (U+0060), which a TLA+ string literal cannot hold
BQ == "<backtick>"

\* the characters str.strip() removes (the ASCII ones)
Whitespace == {" ", "\t", "\n"}

UpperChars == <<"A", "B", "C", "D", "E", "F", "G", "H", "I", "J", "K", "L", "M",
                "N", "O", "P", "Q", "R", "S", "T", "U", "V", "W", "X", "Y", "Z">>
LowerChars == <<"a", "b", "c", "d", "e", "f", "g", "h", "i", "j", "k", "l", "m",
                "n", "o", "p", "q", "r", "s", "t", "u", "v", "w", "x", "y", "z">>

\* str.lower() of one character
lower_char(c) ==
    IF \E k \in 1..26 : UpperChars[k] = c
    THEN LowerChars[CHOOSE k \in 1..26 : UpperChars[k] = c]
    ELSE c

\* str.lower()
lower(s) == [k \in 1..Len(s) |-> lower_char(s[k])]

RECURSIVE lstrip(_)
\* str.lstrip()
lstrip(s) ==
    IF s = <<>> THEN <<>>
    ELSE IF s[1] \in Whitespace THEN lstrip(Tail(s)) ELSE s

RECURSIVE rstrip(_)
\* str.rstrip()
rstrip(s) ==
    IF s = <<>> THEN <<>>
    ELSE IF s[Len(s)] \in Whitespace THEN rstrip(SubSeq(s, 1, Len(s) - 1)) ELSE s

\* str.strip()
strip(s) == rstrip(lstrip(s))

\* s.startswith(p)
startswith(s, p) == Len(p) <= Len(s) /\ SubSeq(s, 1, Len(p)) = p

RECURSIVE contains(_, _)
\* `p in s`: scan s from the left for an occurrence of p
contains(s, p) ==
    IF Len(s) < Len(p) THEN FALSE
    ELSE IF startswith(s, p) THEN TRUE
    ELSE contains(Tail(s), p)

RECURSIVE join(_)
\* ''.join(parts)
join(parts) ==
    IF parts = <<>> THEN <<>> ELSE Head(parts) \o join(Tail(parts))

(***************************************************************************)
(* is_continue_message                                                     *)
(***************************************************************************)
\* 'continue'
STR_continue == <<"c", "o", "n", "t", "i", "n", "u", "e">>
\* '@agent Continue: "Continue to iterate?"'
STR_agent_continue ==
    <<"@", "a", "g", "e", "n", "t", " ", "C", "o", "n", "t", "i", "n", "u", "e",
      ":", " ", "\"", "C", "o", "n", "t", "i", "n", "u", "e", " ", "t", "o", " ",
      "i", "t", "e", "r", "a", "t", "e", "?", "\"">>

\* is_continue_message with the strip() of line 250 left out
is_continue_message_nostrip(text) ==
    IF text = <<>> THEN FALSE
    ELSE IF lower(text) = STR_continue THEN TRUE
    ELSE IF contains(text, STR_agent_continue) THEN TRUE
    ELSE FALSE

is_continue_message(text) ==
    IF text = <<>> THEN FALSE
    ELSE LET t == strip(text) IN
         IF lower(t) = STR_continue THEN TRUE
         ELSE IF contains(t, STR_agent_continue) THEN TRUE
         ELSE FALSE

(***************************************************************************)
(* The requests of an input document.  A request is modelled by its        *)
(* message: whether message.text is present, and its text.                 *)
(***************************************************************************)
MSG_Continue == <<"C", "o", "n", "t", "i", "n", "u", "e">>
MSG_continue == <<"c", "o", "n", "t", "i", "n", "u", "e">>
MSG_CONTINUE_padded == <<" ", " ", "C", "O", "N", "T", "I", "N", "U", "E", " ", "\n">>
MSG_Continue_please ==
    <<"C", "o", "n", "t", "i", "n", "u", "e", " ", "p", "l", "e", "a", "s", "e">>
MSG_continued == <<"c", "o", "n", "t", "i", "n", "u", "e", "d">>
MSG_agent_embedded ==
    <<"x", " ", "@", "a", "g", "e", "n", "t", " ", "C", "o", "n", "t", "i", "n", "u",
      "e", ":", " ", "\"", "C", "o", "n", "t", "i", "n", "u", "e", " ", "t", "o", " ",
      "i", "t", "e", "r", "a", "t", "e", "?", "\"", " ", "y">>
MSG_agent_lowercase ==
    <<"@", "a", "g", "e", "n", "t", " ", "c", "o", "n", "t", "i", "n", "u", "e", ":",
      " ", "\"", "c", "o", "n", "t", "i", "n", "u", "e", " ", "t", "o", " ", "i", "t",
      "e", "r", "a", "t", "e", "?", "\"">>
MSG_fix_bug == <<"f", "i", "x", " ", "b", "u", "g">>
MSG_blank == <<" ", " ", " ">>
MSG_empty == <<>>

MessageTexts ==
    {MSG_Continue, MSG_continue, MSG_CONTINUE_padded, MSG_Continue_please,
     MSG_continued, MSG_agent_embedded, MSG_agent_lowercase, MSG_fix_bug,
     MSG_blank, MSG_empty}

\* a request whose message has a text, and one whose message has none
Requests ==
    {[hasText |-> TRUE, text |-> t] : t \in MessageTexts}
        \cup {[hasText |-> FALSE, text |-> <<>>]}

RequestLists == UNION {[1..n -> Requests] : n \in 0..MaxTurns}

\* req.get('message', {}).get('text', '')
message_text(req) == IF req.hasText THEN req.text ELSE <<>>

(***************************************************************************)
(* process_chat_json: the grouping loop.                                   *)
(***************************************************************************)
\* the loop body with the `if not current_group` test left out, so that the
\* first turn is judged by its message like every other turn
group_turn_no_first(gs, cg, turn_num, req) ==
    IF is_continue_message(message_text(req))
    THEN [groups |-> gs, current_group |-> Append(cg, <<turn_num, req>>)]
    ELSE [groups |-> Append(gs, cg), current_group |-> <<<<turn_num, req>>>>]

\* the loop body with the test of is_continue_message inverted
group_turn_inverted(gs, cg, turn_num, req) ==
    IF cg = <<>>
    THEN [groups |-> gs, current_group |-> Append(cg, <<turn_num, req>>)]
    ELSE IF ~is_continue_message(message_text(req))
         THEN [groups |-> gs, current_group |-> Append(cg, <<turn_num, req>>)]
         ELSE [groups |-> Append(gs, cg), current_group |-> <<<<turn_num, req>>>>]

\* one iteration of `for i, req in enumerate(requests)`
group_turn(gs, cg, turn_num, req) ==
    IF cg = <<>>
    THEN [groups |-> gs, current_group |-> Append(cg, <<turn_num, req>>)]
    ELSE IF is_continue_message(message_text(req))
         THEN [groups |-> gs, current_group |-> Append(cg, <<turn_num, req>>)]
         ELSE [groups |-> Append(gs, cg), current_group |-> <<<<turn_num, req>>>>]

\* `if not requests: ... return`
ReturnNoRequests ==
    /\ gpc = "start"
    /\ requests = <<>>
    /\ gpc' = "returned"
    /\ UNCHANGED <<requests, gi, groups, current_group>>
    /\ UNCHANGED <<svars, xvars>>

\* `groups = []; current_group = []`
StartGrouping ==
    /\ gpc = "start"
    /\ requests # <<>>
    /\ groups' = <<>>
    /\ current_group' = <<>>
    /\ gi' = 0
    /\ gpc' = "group"
    /\ UNCHANGED requests
    /\ UNCHANGED <<svars, xvars>>

GroupStep ==
    /\ gpc = "group"
    /\ gi < Len(requests)
    /\ LET r == group_turn(groups, current_group, gi + 1, requests[gi + 1]) IN
        /\ groups' = r.groups
        /\ current_group' = r.current_group
    /\ gi' = gi + 1
    /\ UNCHANGED <<requests, gpc>>
    /\ UNCHANGED <<svars, xvars>>

\* `if current_group: groups.append(current_group)`
GroupFinish ==
    /\ gpc = "group"
    /\ gi = Len(requests)
    /\ groups' = IF current_group # <<>> THEN Append(groups, current_group) ELSE groups
    /\ gpc' = "grouped"
    /\ UNCHANGED <<requests, gi, current_group>>
    /\ UNCHANGED <<svars, xvars>>

InitStreamIdle ==
    /\ PROJECT_ROOT = <<>>
    /\ responses = <<>>
    /\ result_parts = <<>>
    /\ current_text = <<>>
    /\ text_src = <<>>
    /\ part_src = <<>>
    /\ spc = "idle"

InitGroup ==
    /\ requests \in RequestLists
    /\ gi = 0
    /\ groups = <<>>
    /\ current_group = <<>>
    /\ gpc = "start"
    /\ InitStreamIdle
    /\ InitExtraIdle

NextGroup ==
    \/ ReturnNoRequests
    \/ StartGrouping
    \/ GroupStep
    \/ GroupFinish

SpecGroup == InitGroup /\ [][NextGroup]_vars

(***************************************************************************)
(* Paths: os.path.basename, os.path.relpath, to_relative_path.             *)
(***************************************************************************)
\* the largest element of a non-empty set of integers
max_of(S) == CHOOSE m \in S : \A x \in S : x <= m

\* the positions of character c in s
positions(s, c) == {k \in 1..Len(s) : s[k] = c}

\* os.path.basename(path): what follows the last '/'
basename(path) ==
    IF positions(path, "/") = {} THEN path
    ELSE SubSeq(path, max_of(positions(path, "/")) + 1, Len(path))

RECURSIVE split_acc(_, _, _, _)
split_acc(s, sep, cur, out) ==
    IF s = <<>> THEN Append(out, cur)
    ELSE IF s[1] = sep THEN split_acc(Tail(s), sep, <<>>, Append(out, cur))
    ELSE split_acc(Tail(s), sep, Append(cur, s[1]), out)

\* s.split(sep), sep one character
split(s, sep) == split_acc(s, sep, <<>>, <<>>)

IsNonEmpty(c) == c # <<>>

\* the components of a path: [x for x in path.split('/') if x]
components(path) == SelectSeq(split(path, "/"), IsNonEmpty)

RECURSIVE common_prefix_len(_, _)
\* len(os.path.commonprefix([a, b])) on lists of components
common_prefix_len(a, b) ==
    IF a = <<>> \/ b = <<>> THEN 0
    ELSE IF a[1] = b[1] THEN 1 + common_prefix_len(Tail(a), Tail(b))
    ELSE 0

RECURSIVE join_sep(_, _)
\* sep.join(parts)
join_sep(parts, sep) ==
    IF parts = <<>> THEN <<>>
    ELSE IF Len(parts) = 1 THEN parts[1]
    ELSE parts[1] \o sep \o join_sep(Tail(parts), sep)

\* os.path.abspath(path).  The paths of the model are absolute and normalised
\* (no '.', '..', '//' or trailing '/'), and abspath returns those unchanged.
abspath(path) == path

\* os.path.relpath(path, start), both absolute
relpath(path, start) ==
    LET start_list == components(start)
        path_list == components(path)
        i == common_prefix_len(start_list, path_list)
        rel_list == [k \in 1..(Len(start_list) - i) |-> <<".", ".">>]
                        \o SubSeq(path_list, i + 1, Len(path_list))
    IN IF rel_list = <<>> THEN <<".">> ELSE join_sep(rel_list, <<"/">>)

\* to_relative_path(path).  PROJECT_ROOT = <<>> models None.
to_relative_path(path) ==
    IF path = <<>> \/ PROJECT_ROOT = <<>> THEN path
    ELSE LET hashes == positions(path, "#")
             clean_path == IF hashes = {} THEN path
                           ELSE SubSeq(path, 1, max_of(hashes) - 1)
             suffix == IF hashes = {} THEN <<>>
                       ELSE SubSeq(path, max_of(hashes), Len(path))
             abs_path == abspath(clean_path)
         IN IF startswith(abs_path, PROJECT_ROOT)
            THEN relpath(abs_path, PROJECT_ROOT) \o suffix
            ELSE path

(***************************************************************************)
(* Response events.  An event is modelled by its kind (NoKind when the     *)
(* key is absent), its value (hasValue: the key is present), its name and  *)
(* its inlineReference object.                                             *)
(***************************************************************************)
NoKind == "<none>"

\* resp.get('inlineReference', {}) when the key is absent: {}
EmptyRef ==
    [isDict |-> TRUE, hasKind |-> FALSE, hasName |-> FALSE, name |-> <<>>,
     locPath |-> <<>>, hasLine |-> FALSE, line |-> 0, path |-> <<>>]

\* an inlineReference that is no dict (a string, a list)
NonDictRef == [EmptyRef EXCEPT !.isDict = FALSE]

\* The keys of a response object that only the renderer of process_chat_json
\* reads, each at the value its .get() default gives:
\*   generatedTitle  item.get('generatedTitle', '')
\*   toolName        content.get('toolName'); <<>> stands for None and ''
\*   invMsgType      the type of resp.get('invocationMessage'): "none", "str"
\*                   or "dict"; invMsg is the string, or the dict's 'value'
\*   tsdKind         "absent" for a missing or empty toolSpecificData, else
\*                   its 'kind' ("terminal", "todoList"), "other" for the rest
\*   commandLine     tool_data['commandLine']['original']
\*   termOutput      tool_data['terminalCommandOutput']['text']
\*   todos           tool_data['todoList'], records [status, title]
\*   timestamp       tsd['terminalCommandState']['timestamp'] in ms, 0 if absent
\*   uriPath         content['uri']['path']
\*   edits           content['edits']: a list of lists of edit texts
NoPayload ==
    [generatedTitle |-> <<>>, toolName |-> <<>>,
     invMsgType |-> "none", invMsg |-> <<>>,
     tsdKind |-> "absent", commandLine |-> <<>>, termOutput |-> <<>>,
     todos |-> <<>>, timestamp |-> 0,
     uriPath |-> <<>>, edits |-> <<>>]

Ev(kind, hasValue, value) ==
    [kind |-> kind, hasValue |-> hasValue, value |-> value,
     name |-> <<>>, ref |-> EmptyRef, x |-> NoPayload]

RefEv(name, ref) ==
    [kind |-> "inlineReference", hasValue |-> FALSE, value |-> <<>>,
     name |-> name, ref |-> ref, x |-> NoPayload]

\* resp.get('value', '')
value_of(resp) == IF resp.hasValue THEN resp.value ELSE <<>>

Digits == <<"0", "1", "2", "3", "4", "5", "6", "7", "8", "9">>

RECURSIVE str_int(_)
\* f"{line}" of a non-negative int
str_int(n) ==
    IF n < 10 THEN <<Digits[n + 1]>>
    ELSE str_int(n \div 10) \o <<Digits[(n % 10) + 1]>>

\* the f-string that puts name between two backticks, '' if name is empty
code_span(name) == IF name # <<>> THEN <<BQ>> \o name \o <<BQ>> ELSE <<>>

format_inline_reference(resp) ==
    LET name == resp.name
        inner_ref == resp.ref
    IN  IF ~inner_ref.isDict THEN code_span(name)
        ELSE IF inner_ref.hasKind
             THEN LET symbol_name == IF inner_ref.hasName THEN inner_ref.name ELSE name
                      path == inner_ref.locPath
                      hasLine == inner_ref.hasLine /\ inner_ref.line # 0
                      line == str_int(inner_ref.line)
                  IN  IF path # <<>> /\ hasLine
                      THEN <<BQ>> \o symbol_name \o <<BQ, " ", "(", "[">>
                            \o basename(path) \o <<":">> \o line \o <<"]", "(">>
                            \o to_relative_path(path) \o <<"#", "L">> \o line
                            \o <<")", ")">>
                      ELSE IF path # <<>>
                      THEN <<BQ>> \o symbol_name \o <<BQ, " ", "(", "[">>
                            \o basename(path) \o <<"]", "(">>
                            \o to_relative_path(path) \o <<")", ")">>
                      ELSE code_span(symbol_name)
        ELSE IF inner_ref.path # <<>>
             THEN <<"[">> \o (IF name # <<>> THEN name ELSE basename(inner_ref.path))
                    \o <<"]", "(">> \o to_relative_path(inner_ref.path) \o <<")">>
        ELSE code_span(name)

(***************************************************************************)
(* process_response_stream.  An entry (type, content) of result_parts is   *)
(* the record [type, text, resp]: content is `text` for a 'text' entry and *)
(* the event `resp` for every other type.  The loop's locals are gathered  *)
(* in one record st; its fields text_src and part_src are history, not     *)
(* program state: they remember which events each entry was built from.    *)
(***************************************************************************)
\* '```'
STR_fence == <<BQ, BQ, BQ>>

\* the content slot of a 'text' entry that holds no event
NoResp == Ev(NoKind, FALSE, <<>>)

TextPart(text) == [type |-> "text", text |-> text, resp |-> NoResp]
EventPart(type, resp) == [type |-> type, text |-> <<>>, resp |-> resp]

\* `result_parts = []; current_text = []`
stream_init ==
    [result_parts |-> <<>>, current_text |-> <<>>, text_src |-> <<>>, part_src |-> <<>>]

\* append_text appending the entry to result_parts at once, without buffering
append_text_unbuffered(st, s, idx) ==
    [st EXCEPT !.result_parts = Append(@, TextPart(s)),
               !.part_src = Append(@, <<idx>>)]

\* append_text appending the trimmed string in place of the raw one
append_text_stripped(st, s, idx) ==
    [st EXCEPT !.current_text = Append(@, strip(s)), !.text_src = Append(@, idx)]

\* `current_text.append(s)`
append_text(st, s, idx) ==
    [st EXCEPT !.current_text = Append(@, s), !.text_src = Append(@, idx)]

\* `if current_text: result_parts.append(('text', ''.join(current_text)));
\*  current_text = []`
flush_text(st) ==
    IF st.current_text # <<>>
    THEN [st EXCEPT !.result_parts = Append(@, TextPart(join(st.current_text))),
                    !.part_src = Append(@, st.text_src),
                    !.current_text = <<>>,
                    !.text_src = <<>>]
    ELSE st

\* `result_parts.append((kind, resp))`
emit(st, type, resp, idx) ==
    [st EXCEPT !.result_parts = Append(@, EventPart(type, resp)),
               !.part_src = Append(@, <<idx>>)]

\* flush_and_emit appending the event's entry before it flushes the buffer
emit_and_flush(st, type, resp, idx) == flush_text(emit(st, type, resp, idx))

\* flush_and_emit appending the entry without flushing the buffer
emit_without_flush(st, type, resp, idx) == emit(st, type, resp, idx)

\* the body of a segment kind's branch: flush the text buffer first, then
\* append the event's own entry
flush_and_emit(st, type, resp, idx) == emit(flush_text(st), type, resp, idx)

\* the kinds whose branch is `pass`
IgnoredKinds ==
    {"mcpServersStarting", "undoStop", "progressTaskSerialized",
     "elicitationSerialized", "confirmation", "agent"}

\* the kinds whose branch flushes current_text and appends an entry
SegmentKinds ==
    {"thinking", "prepareToolInvocation", "toolInvocationSerialized",
     "codeblockUri", "textEditGroup"}

\* stream_step without the branch for kind 'undoStop', which then falls to the
\* final else like an unknown kind
stream_step_undoStop_unknown(st, resp, idx) ==
    LET kind == resp.kind
        value == value_of(resp)
    IN  IF (kind = NoKind /\ resp.hasValue) \/ kind = "text"
        THEN LET stripped == strip(value) IN
             IF stripped = STR_fence \/ stripped = <<>>
             THEN st
             ELSE append_text(st, value, idx)
        ELSE IF kind = "inlineReference"
        THEN append_text(st, format_inline_reference(resp), idx)
        ELSE IF kind = "thinking"
        THEN IF value # <<>>
             THEN flush_and_emit(st, "thinking", resp, idx)
             ELSE flush_text(st)
        ELSE IF kind = "prepareToolInvocation"
        THEN flush_and_emit(st, "prepareToolInvocation", resp, idx)
        ELSE IF kind = "toolInvocationSerialized"
        THEN flush_and_emit(st, "toolInvocationSerialized", resp, idx)
        ELSE IF kind = "codeblockUri"
        THEN flush_and_emit(st, "codeblockUri", resp, idx)
        ELSE IF kind = "textEditGroup"
        THEN flush_and_emit(st, "textEditGroup", resp, idx)
        ELSE IF kind = "mcpServersStarting" THEN st
        ELSE IF kind = "progressTaskSerialized" THEN st
        ELSE IF kind = "elicitationSerialized" THEN st
        ELSE IF kind = "confirmation" THEN st
        ELSE IF kind = "agent" THEN st
        ELSE IF value # <<>>
        THEN append_text(st, value, idx)
        ELSE st

\* stream_step whose final else drops the value of an unknown kind
stream_step_drops_unknown(st, resp, idx) ==
    LET kind == resp.kind
        value == value_of(resp)
    IN  IF (kind = NoKind /\ resp.hasValue) \/ kind = "text"
        THEN LET stripped == strip(value) IN
             IF stripped = STR_fence \/ stripped = <<>>
             THEN st
             ELSE append_text(st, value, idx)
        ELSE IF kind = "inlineReference"
        THEN append_text(st, format_inline_reference(resp), idx)
        ELSE IF kind = "thinking"
        THEN IF value # <<>>
             THEN flush_and_emit(st, "thinking", resp, idx)
             ELSE flush_text(st)
        ELSE IF kind = "prepareToolInvocation"
        THEN flush_and_emit(st, "prepareToolInvocation", resp, idx)
        ELSE IF kind = "toolInvocationSerialized"
        THEN flush_and_emit(st, "toolInvocationSerialized", resp, idx)
        ELSE IF kind = "codeblockUri"
        THEN flush_and_emit(st, "codeblockUri", resp, idx)
        ELSE IF kind = "textEditGroup"
        THEN flush_and_emit(st, "textEditGroup", resp, idx)
        ELSE IF kind = "mcpServersStarting" THEN st
        ELSE IF kind = "undoStop" THEN st
        ELSE IF kind = "progressTaskSerialized" THEN st
        ELSE IF kind = "elicitationSerialized" THEN st
        ELSE IF kind = "confirmation" THEN st
        ELSE IF kind = "agent" THEN st
        ELSE st

\* one iteration of `for resp in responses`; idx is the event's position
stream_step(st, resp, idx) ==
    LET kind == resp.kind
        value == value_of(resp)
    IN  IF (kind = NoKind /\ resp.hasValue) \/ kind = "text"
        THEN LET stripped == strip(value) IN
             IF stripped = STR_fence \/ stripped = <<>>
             THEN st
             ELSE append_text(st, value, idx)
        ELSE IF kind = "inlineReference"
        THEN append_text(st, format_inline_reference(resp), idx)
        ELSE IF kind = "thinking"
        THEN IF value # <<>>
             THEN flush_and_emit(st, "thinking", resp, idx)
             ELSE flush_text(st)
        ELSE IF kind = "prepareToolInvocation"
        THEN flush_and_emit(st, "prepareToolInvocation", resp, idx)
        ELSE IF kind = "toolInvocationSerialized"
        THEN flush_and_emit(st, "toolInvocationSerialized", resp, idx)
        ELSE IF kind = "codeblockUri"
        THEN flush_and_emit(st, "codeblockUri", resp, idx)
        ELSE IF kind = "textEditGroup"
        THEN flush_and_emit(st, "textEditGroup", resp, idx)
        ELSE IF kind = "mcpServersStarting" THEN st
        ELSE IF kind = "undoStop" THEN st
        ELSE IF kind = "progressTaskSerialized" THEN st
        ELSE IF kind = "elicitationSerialized" THEN st
        ELSE IF kind = "confirmation" THEN st
        ELSE IF kind = "agent" THEN st
        ELSE IF value # <<>>
        THEN append_text(st, value, idx)
        ELSE st

\* the final flush without its `if current_text` test
stream_finish_unguarded(st) ==
    [st EXCEPT !.result_parts = Append(@, TextPart(join(st.current_text))),
               !.part_src = Append(@, st.text_src),
               !.current_text = <<>>,
               !.text_src = <<>>]

\* after the loop: `if current_text: result_parts.append(...)`
stream_finish(st) == flush_text(st)

RECURSIVE stream_fold(_, _, _)
\* the loop run over the events resps, the first of them at position idx
stream_fold(st, resps, idx) ==
    IF resps = <<>> THEN st
    ELSE stream_fold(stream_step(st, Head(resps), idx), Tail(resps), idx + 1)

\* process_response_stream(responses): the list returned
process_response_stream(resps) ==
    stream_finish(stream_fold(stream_init, resps, 1)).result_parts

\* the loop's locals, as one record
stream_state ==
    [result_parts |-> result_parts, current_text |-> current_text,
     text_src |-> text_src, part_src |-> part_src]

(***************************************************************************)
(* The events the model feeds to process_response_stream.                  *)
(***************************************************************************)
PATH_file == <<"/", "r", "/", "f">>

EV_text_a == Ev("text", TRUE, <<"a">>)
EV_plain_b == Ev(NoKind, TRUE, <<" ", "b">>)
EV_text_blank == Ev("text", TRUE, <<" ">>)
EV_text_fence == Ev("text", TRUE, <<BQ, BQ, BQ, "\n">>)
EV_no_kind_no_value == Ev(NoKind, FALSE, <<>>)
EV_ref_name == RefEv(<<"n">>, NonDictRef)
EV_ref_empty == RefEv(<<>>, EmptyRef)
EV_ref_symbol ==
    RefEv(<<"n">>, [EmptyRef EXCEPT !.hasKind = TRUE, !.hasName = TRUE, !.name = <<"s">>,
                                    !.locPath = PATH_file, !.hasLine = TRUE, !.line = 12])
EV_ref_file == RefEv(<<>>, [EmptyRef EXCEPT !.path = PATH_file])
EV_thinking == Ev("thinking", TRUE, <<"t">>)
EV_thinking_empty == Ev("thinking", TRUE, <<>>)
EV_prepare == Ev("prepareToolInvocation", FALSE, <<>>)
EV_tool == Ev("toolInvocationSerialized", FALSE, <<>>)
EV_codeblockUri == Ev("codeblockUri", FALSE, <<>>)
EV_textEditGroup == Ev("textEditGroup", FALSE, <<>>)
EV_undoStop == Ev("undoStop", TRUE, <<"u">>)
EV_other_blank == Ev("other", TRUE, <<" ">>)
EV_other_c == Ev("other", TRUE, <<"c">>)

Events ==
    {EV_text_a, EV_plain_b, EV_text_blank, EV_text_fence, EV_no_kind_no_value,
     EV_ref_name, EV_ref_empty, EV_ref_symbol, EV_ref_file,
     EV_thinking, EV_thinking_empty, EV_prepare, EV_tool, EV_codeblockUri,
     EV_textEditGroup, EV_undoStop, EV_other_blank, EV_other_c}

\* detect_project_root: None (modelled <<>>) or the directory holding .git
ProjectRoots == {<<>>, <<"/", "r">>}

\* the events fed to the classifier to tell the kinds apart: every ignored
\* kind, with and without a value, and unknown kinds among text and segments
EV_mcpServersStarting == Ev("mcpServersStarting", FALSE, <<>>)
EV_progressTaskSerialized == Ev("progressTaskSerialized", TRUE, <<"u">>)
EV_elicitationSerialized == Ev("elicitationSerialized", TRUE, <<"u">>)
EV_confirmation == Ev("confirmation", TRUE, <<"u">>)
EV_agent == Ev("agent", TRUE, <<"u">>)
EV_other_no_value == Ev("other", FALSE, <<>>)

KindEvents ==
    {EV_mcpServersStarting, EV_undoStop, EV_progressTaskSerialized,
     EV_elicitationSerialized, EV_confirmation, EV_agent,
     EV_other_c, EV_other_blank, EV_other_no_value, EV_no_kind_no_value,
     EV_text_a, EV_plain_b, EV_ref_name, EV_thinking_empty, EV_tool}

\* the loop consumes the next event of the input, an event of E
StreamEventFrom(E) ==
    /\ spc = "loop"
    /\ Len(responses) < MaxEvents
    /\ \E resp \in E :
        LET st == stream_step(stream_state, resp, Len(responses) + 1) IN
        /\ responses' = Append(responses, resp)
        /\ result_parts' = st.result_parts
        /\ current_text' = st.current_text
        /\ text_src' = st.text_src
        /\ part_src' = st.part_src
    /\ UNCHANGED <<PROJECT_ROOT, spc>>
    /\ UNCHANGED <<gvars, xvars>>

StreamEvent == StreamEventFrom(Events)

StreamKindEvent == StreamEventFrom(KindEvents)

\* the input is exhausted: flush and return result_parts
StreamReturn ==
    /\ spc = "loop"
    /\ LET st == stream_finish(stream_state) IN
        /\ result_parts' = st.result_parts
        /\ current_text' = st.current_text
        /\ text_src' = st.text_src
        /\ part_src' = st.part_src
    /\ spc' = "done"
    /\ UNCHANGED <<PROJECT_ROOT, responses>>
    /\ UNCHANGED <<gvars, xvars>>

InitGroupIdle ==
    /\ requests = <<>>
    /\ gi = 0
    /\ groups = <<>>
    /\ current_group = <<>>
    /\ gpc = "idle"

InitStream ==
    /\ PROJECT_ROOT \in ProjectRoots
    /\ responses = <<>>
    /\ result_parts = stream_init.result_parts
    /\ current_text = stream_init.current_text
    /\ text_src = stream_init.text_src
    /\ part_src = stream_init.part_src
    /\ spc = "loop"
    /\ InitGroupIdle
    /\ InitExtraIdle

NextStream ==
    \/ StreamEvent
    \/ StreamReturn

SpecStream == InitStream /\ [][NextStream]_vars

NextStreamKinds ==
    \/ StreamKindEvent
    \/ StreamReturn

SpecStreamKinds == InitStream /\ [][NextStreamKinds]_vars

(***************************************************************************)
(* Properties of the turn grouper.                                         *)
(***************************************************************************)
RECURSIVE flatten(_)
\* the concatenation of the groups, in group order
flatten(gs) == IF gs = <<>> THEN <<>> ELSE Head(gs) \o flatten(Tail(gs))

\* the turns of the input: (turn number, request), numbered from 1
Turns == [k \in 1..Len(requests) |-> <<k, requests[k]>>]

\* C1: grouping is a partition.  Once the groups are built, concatenating
\* them in group order gives the turns 1..n, each once and ascending, and no
\* group is empty; while the loop runs, the closed groups followed by the
\* open one are the turns consumed so far.
C1_GroupingIsPartition ==
    /\ gpc = "grouped" =>
        /\ flatten(groups) = Turns
        /\ \A g \in 1..Len(groups) : groups[g] # <<>>
    /\ gpc = "group" =>
        /\ flatten(groups) \o current_group = SubSeq(Turns, 1, gi)
        /\ \A g \in 1..Len(groups) : groups[g] # <<>>

\* three turns were split into two groups
C1_Witness ==
    /\ gpc = "grouped"
    /\ Len(requests) = 3
    /\ Len(groups) = 2
    /\ Len(groups[1]) = 2

\* the turns after the first whose message is no continuation signal
NewRequestTurns ==
    {k \in 2..Len(requests) : ~is_continue_message(message_text(requests[k]))}

\* C2: group boundaries follow the continuation rule.  Turn 1 starts the
\* first group whatever its message; in every group the turns after the first
\* are continuation signals and the first is turn 1 or no continuation signal;
\* there are 1 + (number of non-continuation turns among 2..n) groups.
C2_ContinuationRule ==
    gpc = "grouped" =>
        /\ groups[1][1][1] = 1
        /\ \A g \in 1..Len(groups) :
            /\ \A j \in 2..Len(groups[g]) :
                is_continue_message(message_text(groups[g][j][2]))
            /\ \/ groups[g][1][1] = 1
               \/ ~is_continue_message(message_text(groups[g][1][2]))
        /\ Len(groups) = 1 + Cardinality(NewRequestTurns)

\* the first turn is itself a continuation signal and still opens a group; a
\* continuation joins it and a new request closes it
C2_Witness ==
    /\ gpc = "grouped"
    /\ Len(requests) = 3
    /\ requests[1].text = MSG_Continue
    /\ requests[2].text = MSG_agent_embedded
    /\ requests[3].text = MSG_fix_bug
    /\ Len(groups) = 2
    /\ Len(groups[1]) = 2

\* text, with the whitespace at both ends removed, is `word` up to letter case
TrimmedEqualsIgnoringCase(text, word) ==
    \E a \in 0..Len(text) : \E b \in 0..Len(text) :
        /\ a + Len(word) + b = Len(text)
        /\ \A k \in 1..a : text[k] \in Whitespace
        /\ \A k \in (Len(text) - b + 1)..Len(text) : text[k] \in Whitespace
        /\ \A k \in 1..Len(word) :
            \E j \in 1..26 :
                /\ LowerChars[j] = word[k]
                /\ text[a + k] \in {LowerChars[j], UpperChars[j]}

\* p occurs in text
HasSubstring(text, p) ==
    \E k \in 1..(Len(text) - Len(p) + 1) : SubSeq(text, k, k + Len(p) - 1) = p

\* C3: is_continue_message(text) is true iff the trimmed text is "continue"
\* up to letter case or the text contains @agent Continue: "Continue to
\* iterate?"; it is false for an empty or absent message and for
\* "Continue please".
C3_ContinueSignal ==
    \A k \in 1..Len(requests) :
        LET text == message_text(requests[k]) IN
        /\ is_continue_message(text) <=>
            \/ TrimmedEqualsIgnoringCase(text, STR_continue)
            \/ HasSubstring(text, STR_agent_continue)
        /\ text = <<>> => ~is_continue_message(text)
        /\ text = MSG_Continue_please => ~is_continue_message(text)

\* "  CONTINUE \n" joined the group of turn 1, the marker inside other text
\* joined it too
C3_Witness ==
    /\ gpc = "grouped"
    /\ Len(requests) = 3
    /\ requests[2].text = MSG_CONTINUE_padded
    /\ requests[3].text = MSG_agent_embedded
    /\ Len(groups) = 1
    /\ Len(groups[1]) = 3

(***************************************************************************)
(* Properties of the event classifier.                                     *)
(***************************************************************************)
\* text, with the whitespace at both ends removed, is exactly `word`
TrimmedIs(text, word) ==
    \E a \in 0..Len(text) : \E b \in 0..Len(text) :
        /\ a + Len(word) + b = Len(text)
        /\ \A k \in 1..a : text[k] \in Whitespace
        /\ \A k \in (Len(text) - b + 1)..Len(text) : text[k] \in Whitespace
        /\ \A k \in 1..Len(word) : text[a + k] = word[k]

\* an event of plain kind (no kind, a value) or of kind 'text'
IsPlainText(resp) == (resp.kind = NoKind /\ resp.hasValue) \/ resp.kind = "text"

\* a plain/text event whose trimmed value is neither empty nor a lone fence
IsKeptText(resp) ==
    /\ IsPlainText(resp)
    /\ ~TrimmedIs(value_of(resp), <<>>)
    /\ ~TrimmedIs(value_of(resp), STR_fence)

\* the indices of the entries of result_parts that are not 'text'
NonTextParts == {p \in 1..Len(result_parts) : result_parts[p].type # "text"}

\* the entries of result_parts built from event k
PartsOf(k) ==
    {p \in 1..Len(part_src) : \E n \in 1..Len(part_src[p]) : part_src[p][n] = k}

\* the entry of result_parts that holds event k's content
PartOf(k) == CHOOSE p \in PartsOf(k) : TRUE

\* the events consumed so far that are of kind in K
EventsOfKind(K) == {k \in 1..Len(responses) : responses[k].kind \in K}

\* C4: the output of process_response_stream never holds two adjacent
\* 'text' entries.
C4_NoAdjacentText ==
    \A p \in 1..(Len(result_parts) - 1) :
        ~(result_parts[p].type = "text" /\ result_parts[p + 1].type = "text")

\* C5: every 'text' entry of the output is non-empty after whitespace
\* trimming.
C5_TextNeverBlank ==
    \A p \in 1..Len(result_parts) :
        result_parts[p].type = "text" => ~TrimmedIs(result_parts[p].text, <<>>)

EmittingEvents ==
    {k \in EventsOfKind(SegmentKinds) :
        ~(responses[k].kind = "thinking" /\ value_of(responses[k]) = <<>>)}

\* result_parts once a non-empty current_text has been flushed into it
FlushedParts ==
    IF current_text # <<>>
    THEN Append(result_parts, TextPart(join(current_text)))
    ELSE result_parts

OnlyTextOrIgnored ==
    \A k \in 1..Len(responses) :
        IsPlainText(responses[k]) \/ responses[k].kind \in IgnoredKinds

RECURSIVE kept_concat(_)
\* the raw values of the kept plain/text events, concatenated in order
kept_concat(evs) ==
    IF evs = <<>> THEN <<>>
    ELSE (IF IsKeptText(Head(evs)) THEN value_of(Head(evs)) ELSE <<>>)
            \o kept_concat(Tail(evs))

\* C7 as claimed: events of plain/text or ignored kind only yield exactly one
\* 'text' entry, the concatenation of the kept raw values.
C7_ExactlyOneText ==
    (spc = "done" /\ OnlyTextOrIgnored) =>
        result_parts = <<TextPart(kept_concat(responses))>>

\* C7 as amended: events of plain/text or ignored kind only yield exactly one
\* 'text' entry, the in-order concatenation of the kept raw values, when at
\* least one value is kept, and no entry at all when none is.
C7_OneTextIfAnyKept ==
    (spc = "done" /\ OnlyTextOrIgnored) =>
        result_parts =
            IF \E k \in 1..Len(responses) : IsKeptText(responses[k])
            THEN <<TextPart(kept_concat(responses))>>
            ELSE <<>>

\* two kept values around an ignored event came out as one entry, untrimmed
C7_Witness ==
    /\ spc = "done"
    /\ responses = <<EV_plain_b, EV_undoStop, EV_text_a>>
    /\ result_parts = <<TextPart(<<" ", "b", "a">>)>>

\* C8: an empty event sequence gives an empty segment sequence.
C8_EmptyStream ==
    (spc = "done" /\ responses = <<>>) => result_parts = <<>>

\* the classifier returned on an empty input
C8_Witness ==
    /\ spc = "done"
    /\ responses = <<>>
    /\ result_parts = <<>>

\* an event of a run of prose: a kept plain/text event or an inline reference
IsRunEvent(resp) == IsKeptText(resp) \/ resp.kind = "inlineReference"

\* what an event appends to the text buffer
contribution(resp) ==
    IF resp.kind = "inlineReference" THEN format_inline_reference(resp)
    ELSE value_of(resp)

\* C9: kept plain/text events and inline references with no segment-kind
\* event between them end up in one and the same 'text' entry; every such
\* event is in exactly one entry, and a 'text' entry is the in-order
\* concatenation of the values and formatted references it was built from.
C9_RunsMerge ==
    spc = "done" =>
        /\ \A k \in 1..Len(responses) :
            IsRunEvent(responses[k]) =>
                /\ Cardinality(PartsOf(k)) = 1
                /\ result_parts[PartOf(k)].type = "text"
        /\ \A i \in 1..Len(responses) : \A j \in (i + 1)..Len(responses) :
            (/\ IsRunEvent(responses[i])
             /\ IsRunEvent(responses[j])
             /\ \A k \in (i + 1)..(j - 1) : responses[k].kind \notin SegmentKinds)
                => PartsOf(i) = PartsOf(j)
        /\ \A p \in 1..Len(result_parts) :
            result_parts[p].type = "text" =>
                /\ \A n \in 1..(Len(part_src[p]) - 1) : part_src[p][n] < part_src[p][n + 1]
                /\ result_parts[p].text =
                    join([n \in 1..Len(part_src[p]) |-> contribution(responses[part_src[p][n]])])

\* text, a formatted symbol reference and more text came out as one entry
C9_Witness ==
    /\ spc = "done"
    /\ PROJECT_ROOT # <<>>
    /\ responses = <<EV_text_a, EV_ref_symbol, EV_plain_b>>
    /\ Len(result_parts) = 1
    /\ result_parts[1].text =
        <<"a">> \o format_inline_reference(EV_ref_symbol) \o <<" ", "b">>

\* the events whose content is in some entry of result_parts
PlacedEvents == {k \in 1..Len(responses) : PartsOf(k) # {}}

\* the events whose content is still in the text buffer
BufferedEvents ==
    {k \in 1..Len(responses) : \E n \in 1..Len(text_src) : text_src[n] = k}

\* C10: the output keeps the order of the events.  Of two events that are
\* both in the output the earlier one is in the same or an earlier entry;
\* what precedes a non-text event's entry is never still in the buffer when
\* that entry is appended, prose before it is in a 'text' entry before its
\* entry and prose after it in a 'text' entry after its entry; on return
\* nothing is left in the buffer.
C10_OrderPreserved ==
    /\ \A i \in PlacedEvents : \A j \in PlacedEvents :
        i < j => PartOf(i) <= PartOf(j)
    /\ \A k \in PlacedEvents :
        result_parts[PartOf(k)].type # "text" =>
            /\ \A i \in BufferedEvents : k < i
            /\ \A i \in PlacedEvents :
                /\ i < k => (PartOf(i) < PartOf(k)
                                /\ (responses[i].kind \notin SegmentKinds
                                        => result_parts[PartOf(i)].type = "text"))
                /\ k < i => (PartOf(k) < PartOf(i)
                                /\ (responses[i].kind \notin SegmentKinds
                                        => result_parts[PartOf(i)].type = "text"))
    /\ spc = "done" => BufferedEvents = {}

\* prose, a tool invocation and more prose came out as text, tool, text
C10_Witness ==
    /\ spc = "done"
    /\ responses = <<EV_text_a, EV_tool, EV_plain_b>>
    /\ Len(result_parts) = 3
    /\ result_parts[1] = TextPart(<<"a">>)
    /\ result_parts[2].type = "toolInvocationSerialized"
    /\ result_parts[3] = TextPart(<<" ", "b">>)

(***************************************************************************)
(* truncate_output                                                         *)
(***************************************************************************)
\* '... (' and ' lines omitted) ...'
STR_omitted_open == <<".", ".", ".", " ", "(">>
STR_omitted_close ==
    <<" ", "l", "i", "n", "e", "s", " ", "o", "m", "i", "t", "t", "e", "d", ")",
      " ", ".", ".", ".">>

\* the element put between head and tail: f'\n... ({omitted} lines omitted) ...\n'
ellipsis_element(omitted) ==
    <<"\n">> \o STR_omitted_open \o str_int(omitted) \o STR_omitted_close \o <<"\n">>

\* truncate_output with the short-enough test `total_lines <= head + tail`
truncate_output_tight(text, head_lines, tail_lines) ==
    LET lines == split(text, "\n")
        total_lines == Len(lines)
    IN  IF total_lines <= head_lines + tail_lines
        THEN text
        ELSE LET head == SubSeq(lines, 1, head_lines)
                 tail == IF tail_lines > 0
                         THEN SubSeq(lines, total_lines - tail_lines + 1, total_lines)
                         ELSE <<>>
                 omitted == total_lines - head_lines - tail_lines
             IN  join_sep(head \o <<ellipsis_element(omitted)>> \o tail, <<"\n">>)

truncate_output(text, head_lines, tail_lines) ==
    LET lines == split(text, "\n")
        total_lines == Len(lines)
    IN  IF total_lines <= head_lines + tail_lines + 2
        THEN text
        ELSE LET head == SubSeq(lines, 1, head_lines)
                 tail == IF tail_lines > 0
                         THEN SubSeq(lines, total_lines - tail_lines + 1, total_lines)
                         ELSE <<>>
                 omitted == total_lines - head_lines - tail_lines
             IN  join_sep(head \o <<ellipsis_element(omitted)>> \o tail, <<"\n">>)

\* a text of n lines, line i being the decimal numeral of i
numbered_text(n) == join_sep([i \in 1..n |-> str_int(i)], <<"\n">>)

\* the texts of the model: 1..MaxLines numbered lines, with or without a
\* newline at the end
TruncTexts ==
    {numbered_text(n) : n \in 1..MaxLines}
        \cup {numbered_text(n) \o <<"\n">> : n \in 1..(MaxLines - 1)}

\* the call truncate_output(tr_text, tr_head, tr_tail)
Truncate ==
    /\ tpc = "call"
    /\ tr_result' = truncate_output(tr_text, tr_head, tr_tail)
    /\ tpc' = "done"
    /\ UNCHANGED <<tr_text, tr_head, tr_tail>>
    /\ UNCHANGED <<gvars, svars, rvars, fvars>>

InitTrunc ==
    /\ tr_text \in TruncTexts
    /\ tr_head \in 0..HEAD_LINES
    /\ tr_tail \in 0..TAIL_LINES
    /\ tr_result = <<>>
    /\ tpc = "call"
    /\ InitGroupIdle
    /\ InitStreamIdle
    /\ InitRenderIdle
    /\ InitRunIdle

NextTrunc == Truncate

SpecTrunc == InitTrunc /\ [][NextTrunc]_vars

(***************************************************************************)
(* Properties of truncate_output.                                          *)
(***************************************************************************)
\* the lines of the argument and of the result
TrLines == split(tr_text, "\n")
TrResultLines == split(tr_result, "\n")

\* the marker line reporting n omitted lines: '... (n lines omitted) ...'
MarkerLine(n) == STR_omitted_open \o str_int(n) \o STR_omitted_close

\* the text has more than head + tail + 2 lines
TrLong == Len(TrLines) > tr_head + tr_tail + 2

\* C11 as claimed: a text of more than head+tail+2 lines comes back as exactly
\* its first head lines, one marker line reporting total-head-tail omitted
\* lines and its last tail lines (head+1+tail lines); a text of at most
\* head+tail+2 lines comes back unmodified.
C11_HeadMarkerTail ==
    tpc = "done" =>
        IF TrLong
        THEN TrResultLines =
                SubSeq(TrLines, 1, tr_head)
                    \o <<MarkerLine(Len(TrLines) - tr_head - tr_tail)>>
                    \o SubSeq(TrLines, Len(TrLines) - tr_tail + 1, Len(TrLines))
        ELSE tr_result = tr_text

\* C11 as amended: a text of more than head+tail+2 lines comes back as its
\* first head lines, an empty line, one marker line reporting total-head-tail
\* omitted lines, an empty line, and its last tail lines (head+3+tail lines,
\* 13 for 20 lines and head = tail = 5); a text of at most head+tail+2 lines
\* comes back unmodified.
C11_HeadBlankMarkerBlankTail ==
    tpc = "done" =>
        IF TrLong
        THEN /\ TrResultLines =
                    SubSeq(TrLines, 1, tr_head)
                        \o <<<<>>, MarkerLine(Len(TrLines) - tr_head - tr_tail), <<>>>>
                        \o SubSeq(TrLines, Len(TrLines) - tr_tail + 1, Len(TrLines))
             /\ Len(TrResultLines) = tr_head + 3 + tr_tail
        ELSE tr_result = tr_text

\* 20 lines with head = tail = 5: 13 lines come back, reporting 10 omitted
C11_Witness ==
    /\ tpc = "done"
    /\ tr_text = numbered_text(20)
    /\ tr_head = 5
    /\ tr_tail = 5
    /\ Len(TrResultLines) = 13
    /\ TrResultLines[7] = MarkerLine(10)

(***************************************************************************)
(* Properties of the classifier's ignored and unknown kinds.               *)
(***************************************************************************)
NotIgnored(resp) == resp.kind \notin IgnoredKinds

\* the events consumed so far, those of an ignored kind removed
WithoutIgnored == SelectSeq(responses, NotIgnored)

\* C17: removing every event of an ignored kind does not change the output.
\* At every point of the loop result_parts and the text buffer are what the
\* loop builds from the events with the ignored ones removed, and so is the
\* list returned.
C17_IgnoredHaveNoEffect ==
    /\ spc = "loop" =>
        /\ result_parts = stream_fold(stream_init, WithoutIgnored, 1).result_parts
        /\ current_text = stream_fold(stream_init, WithoutIgnored, 1).current_text
    /\ spc = "done" =>
        result_parts = process_response_stream(WithoutIgnored)

\* two ignored events carrying a value sat between two text values, which
\* came out as one entry
C17_Witness ==
    /\ spc = "done"
    /\ Len(responses) = MaxEvents
    /\ responses[1] = EV_text_a
    /\ responses[2] \in {EV_confirmation, EV_undoStop}
    /\ responses[Len(responses)] = EV_plain_b
    /\ result_parts = <<TextPart(<<"a", " ", "b">>)>>

\* the kinds that have a branch of their own
KnownKinds == {"text", "inlineReference"} \cup SegmentKinds \cup IgnoredKinds

\* an event that reaches the final else: its kind has no branch
IsUnknownKind(resp) ==
    /\ resp.kind \notin KnownKinds
    /\ ~(resp.kind = NoKind /\ resp.hasValue)

\* C18: an event of an unrecognized kind with a non-empty value is never
\* dropped.  Consuming it appends its raw value to the text buffer and leaves
\* result_parts alone (no flush); without a value it changes nothing.  On
\* return the value is in exactly one 'text' entry, and every 'text' entry is
\* the in-order concatenation of what it was built from.
C18_UnknownKept ==
    /\ [][(Len(responses') = Len(responses) + 1
            /\ IsUnknownKind(responses'[Len(responses')])) =>
                LET resp == responses'[Len(responses')] IN
                /\ result_parts' = result_parts
                /\ current_text' =
                    IF value_of(resp) # <<>>
                    THEN Append(current_text, value_of(resp))
                    ELSE current_text]_vars
    /\ [](spc = "done" =>
            /\ \A k \in 1..Len(responses) :
                (IsUnknownKind(responses[k]) /\ value_of(responses[k]) # <<>>) =>
                    /\ Cardinality(PartsOf(k)) = 1
                    /\ result_parts[PartOf(k)].type = "text"
            /\ \A p \in 1..Len(result_parts) :
                result_parts[p].type = "text" =>
                    /\ \A n \in 1..(Len(part_src[p]) - 1) :
                        part_src[p][n] < part_src[p][n + 1]
                    /\ result_parts[p].text =
                        join([n \in 1..Len(part_src[p]) |->
                                contribution(responses[part_src[p][n]])]))

\* an unknown kind's value followed text in the same entry, and an unknown
\* kind without a value left nothing
C18_Witness ==
    /\ spc = "done"
    /\ responses = <<EV_text_a, EV_other_c, EV_other_no_value>>
    /\ result_parts = <<TextPart(<<"a", "c">>)>>
    /\ part_src = <<<<1, 2>>>>

(***************************************************************************)
(* strip_ansi_codes and the string helpers of the renderer                 *)
(***************************************************************************)
\* the one-character strings '\x1b' and '\x07'
ESC == "<ESC>"
BEL == "<BEL>"

\* [0-9;?]
AnsiParamChars == {Digits[k] : k \in 1..10} \cup {";", "?"}
\* [A-Za-z]
AnsiFinalChars == {UpperChars[k] : k \in 1..26} \cup {LowerChars[k] : k \in 1..26}

RECURSIVE ansi_params_len(_, _)
\* the length of the longest run of [0-9;?] that starts at position k of text
ansi_params_len(text, k) ==
    IF k <= Len(text) /\ text[k] \in AnsiParamChars
    THEN 1 + ansi_params_len(text, k + 1) ELSE 0

\* the length of a match of \x1b\[[0-9;?]*[A-Za-z] at the head of text, 0 if none
ansi_csi_len(text) ==
    IF Len(text) >= 3 /\ text[1] = ESC /\ text[2] = "["
    THEN LET n == ansi_params_len(text, 3)
         IN  IF 3 + n <= Len(text) /\ text[3 + n] \in AnsiFinalChars
             THEN 3 + n ELSE 0
    ELSE 0

\* the length of a match of \x1b\][^\x07]*\x07 at the head of text, 0 if none
ansi_osc_len(text) ==
    IF Len(text) >= 3 /\ text[1] = ESC /\ text[2] = "]"
          /\ \E k \in 3..Len(text) : text[k] = BEL
    THEN CHOOSE k \in 3..Len(text) :
             text[k] = BEL /\ \A j \in 3..(k - 1) : text[j] # BEL
    ELSE 0

RECURSIVE strip_ansi_codes(_)
\* ansi_pattern.sub('', text): every match, scanning from the left, is removed
strip_ansi_codes(text) ==
    IF text = <<>> THEN <<>>
    ELSE LET n == IF ansi_csi_len(text) > 0 THEN ansi_csi_len(text)
                  ELSE ansi_osc_len(text)
         IN  IF n > 0 THEN strip_ansi_codes(SubSeq(text, n + 1, Len(text)))
             ELSE <<Head(text)>> \o strip_ansi_codes(Tail(text))

\* s.endswith(p)
endswith(s, p) == Len(p) <= Len(s) /\ SubSeq(s, Len(s) - Len(p) + 1, Len(s)) = p

RECURSIVE replace(_, _, _)
\* s.replace(old, new), old not empty
replace(s, old, new) ==
    IF s = <<>> THEN <<>>
    ELSE IF startswith(s, old)
         THEN new \o replace(SubSeq(s, Len(old) + 1, Len(s)), old, new)
         ELSE <<Head(s)>> \o replace(Tail(s), old, new)

RECURSIVE lstrip_chars(_, _)
lstrip_chars(s, chars) ==
    IF s = <<>> THEN <<>>
    ELSE IF s[1] \in chars THEN lstrip_chars(Tail(s), chars) ELSE s

RECURSIVE rstrip_chars(_, _)
rstrip_chars(s, chars) ==
    IF s = <<>> THEN <<>>
    ELSE IF s[Len(s)] \in chars
         THEN rstrip_chars(SubSeq(s, 1, Len(s) - 1), chars) ELSE s

\* s.strip(chars)
strip_chars(s, chars) == rstrip_chars(lstrip_chars(s, chars), chars)

\* s[2:-2]
slice_2_m2(s) == IF Len(s) >= 4 THEN SubSeq(s, 3, Len(s) - 2) ELSE <<>>

(***************************************************************************)
(* flush_thinking_buffer                                                   *)
(***************************************************************************)
STR_bold == <<"*", "*">>
STR_Thinking_Process == <<"T", "h", "i", "n", "k", "i", "n", "g", " ", "P", "r", "o", "c", "e", "s", "s">>

\* line.startswith('**') and line.endswith('**')
is_bold_line(line) == startswith(line, STR_bold) /\ endswith(line, STR_bold)

\* item_title_or_bold without lines 384-389: the generatedTitle only
item_title_explicit_only(item) == item.x.generatedTitle

\* One pass of the loop of lines 382-393: the title an item offers, its
\* generatedTitle or else the bold first line of its stripped value.
item_title_or_bold(item) ==
    LET t == item.x.generatedTitle
        lines == split(strip(value_of(item)), "\n")
    IN  IF t # <<>> THEN t
        ELSE IF is_bold_line(lines[1]) THEN strip(slice_2_m2(lines[1]))
        ELSE <<>>

RECURSIVE main_title_from(_, _)
\* `for item in reversed(buffer)`: the first item, from index k downwards,
\* that offers a title
main_title_from(buffer, k) ==
    IF k = 0 THEN <<>>
    ELSE IF item_title_or_bold(buffer[k]) # <<>> THEN item_title_or_bold(buffer[k])
    ELSE main_title_from(buffer, k - 1)

main_title_of(buffer) ==
    LET t == main_title_from(buffer, Len(buffer))
    IN  IF t = <<>> THEN STR_Thinking_Process ELSE t

\* line.strip() is empty
IsBlankLine(line) == strip(line) = <<>>

RECURSIVE drop_leading_blank(_)
\* while clean_lines and not clean_lines[0].strip(): clean_lines.pop(0)
drop_leading_blank(lines) ==
    IF lines # <<>> /\ IsBlankLine(lines[1]) THEN drop_leading_blank(Tail(lines))
    ELSE lines

RECURSIVE drop_trailing_blank(_)
\* while clean_lines and not clean_lines[-1].strip(): clean_lines.pop()
drop_trailing_blank(lines) ==
    IF lines # <<>> /\ IsBlankLine(lines[Len(lines)])
    THEN drop_trailing_blank(SubSeq(lines, 1, Len(lines) - 1))
    ELSE lines

\* The section one buffered item contributes to the body (one pass of the loop
\* of lines 400-456), '' for an item that contributes none.
section_text(item, cfg) ==
    LET val == strip(value_of(item))
        item_title == item.x.generatedTitle
        lines == split(val, "\n")
        first_line == strip(lines[1])
        section_header ==
            IF is_bold_line(first_line) THEN strip(slice_2_m2(first_line))
            ELSE item_title
        lines_1 == IF is_bold_line(first_line) THEN Tail(lines) ELSE lines
        lines_2 ==
            IF lines_1 # <<>> /\ section_header # <<>>
                  /\ (\/ strip(lines_1[1]) = section_header
                      \/ strip(lines_1[1]) = STR_bold \o section_header \o STR_bold)
            THEN Tail(lines_1) ELSE lines_1
        clean_lines == drop_trailing_blank(drop_leading_blank(lines_2))
        quoted_body == join_sep(clean_lines, <<"\n">>)
    IN  IF val = <<>> THEN <<>>
        ELSE IF cfg.html_style
        THEN (IF section_header # <<>>
              THEN <<">", " ", "*", "*">> \o section_header \o <<"*", "*", "\n", ">", "\n">> ELSE <<>>)
             \o (IF quoted_body # <<>>
                 THEN <<">", " ">> \o join_sep(clean_lines, <<"\n", ">", " ">>) ELSE <<>>)
        ELSE (IF section_header # <<>>
              THEN STR_bold \o section_header \o <<"*", "*", "\n", "\n">> ELSE <<>>)
             \o quoted_body

\* body_parts
body_parts_of(buffer, cfg) ==
    SelectSeq([k \in 1..Len(buffer) |-> section_text(buffer[k], cfg)], IsNonEmpty)

\* What flush_thinking_buffer writes: no write for an empty buffer or an empty
\* body, else one write.  The write is kept as a record: `title` is the
\* main_title between <summary> and </summary> (fold style only), `s` the
\* full_body between the frame of line 468 or of line 471.
flush_thinking_buffer(buffer, cfg) ==
    IF buffer = <<>> THEN <<>>
    ELSE IF body_parts_of(buffer, cfg) = <<>> THEN <<>>
    ELSE IF cfg.html_style
    THEN <<[w |-> "thinking", title |-> main_title_of(buffer),
            s |-> join_sep(body_parts_of(buffer, cfg), <<"\n", ">", "\n">>)]>>
    ELSE <<[w |-> "thinking", title |-> <<>>,
            s |-> join_sep(body_parts_of(buffer, cfg), <<"\n", "\n">>)]>>

(***************************************************************************)
(* process_chat_json, lines 481-690: rendering the turns of one group      *)
(*                                                                         *)
(* A md_file.write is kept as a record [w, s, title, turn, src]: `w` names *)
(* the f-string of the write, `s` is the text the f-string embeds, `title` *)
(* the summary title of a thinking block.  `turn` and `src` are history:   *)
(* the turn being rendered and the positions, in `processed`, of the       *)
(* segments the write renders.                                             *)
(*   w                  written text                             line      *)
(*   "separator"        \n + '='*40 + \n\n                       486       *)
(*   "turn_header"      # Turn {s}\n\n                           488       *)
(*   "user_header"      ## User\n\n                              491       *)
(*   "user_text"        {s}\n\n                                  492       *)
(*   "assistant_header" ## Assistant\n\n                         495       *)
(*   "text"             {s}\n\n                                  518       *)
(*   "time"             > **Time:** {s}\n\n                      542       *)
(*   "action"           > **Action:** {s}\n\n                    612       *)
(*   "command"          Command:\n```bash\n{s}\n```\n            621       *)
(*   "output"           Output:\n```bash\n{s}\n```\n\n           629       *)
(*   "todo_header"      **Todo List Updated:**\n                 632       *)
(*   "todo_item"        - [{status}] {title}\n, s = status+title 636       *)
(*   "todo_end"         \n                                       637       *)
(*   "edit_summary"     \n<details>\n<summary>Editing File:                *)
(*                      <code>{s}</code></summary>\n\n           657       *)
(*   "edit_label"       **Editing File:** `{s}`\n\n              668       *)
(*   "edit_fence"       ```cpp\n                                 658, 669  *)
(*   "edit_text"        {s}\n                                    665, 676  *)
(*   "edit_end_details" ```\n\n</details>\n\n                    666       *)
(*   "edit_end"         ```\n\n                                  677       *)
(*   "edit_hidden"      > **Editing File:** `{s}`\n\n            681       *)
(*   "thinking"         the frame of line 468 or 471 around s    468, 471  *)
(*   "rule"             ---\n\n                                  690       *)
(***************************************************************************)
STR_Unknown_Tool == <<"U", "n", "k", "n", "o", "w", "n", " ", "T", "o", "o", "l">>
STR_Using == <<"U", "s", "i", "n", "g", " ">>
STR_Apply_Patch == <<"A", "p", "p", "l", "y", " ", "P", "a", "t", "c", "h">>
STR_Unknown_File == <<"U", "n", "k", "n", "o", "w", "n", " ", "F", "i", "l", "e">>
STR_Code_Block == <<"C", "o", "d", "e", " ", "B", "l", "o", "c", "k">>
\* str(None), what an f-string shows for None
STR_None == <<"N", "o", "n", "e">>

\* The local last_edit_path: unbound until line 645 or 647 or 685 first runs,
\* then None or a string.
EditPathUnbound == [state |-> "unbound", path |-> <<>>]
EditPathNone == [state |-> "None", path |-> <<>>]
EditPath(path) == [state |-> "str", path |-> path]

\* f"{display_path}" with display_path = locals().get('last_edit_path', 'Code Block')
display_path_of(edit_path) ==
    IF edit_path.state = "unbound" THEN STR_Code_Block
    ELSE IF edit_path.state = "None" THEN STR_None
    ELSE edit_path.path

\* The renderer's state when a group's file is opened (lines 481-482).
\* last_edit_path is a local of process_chat_json, not of the loop: it keeps
\* the value the previous file left.
render_open(edit_path) ==
    [md_file |-> <<>>, first_turn |-> TRUE, turn_id |-> 0, seg |-> 0,
     thinking_buffer |-> <<>>, thinking_src |-> <<>>,
     last_tool_name |-> <<>>, last_edit_path |-> edit_path,
     tool_names |-> <<>>]

\* one md_file.write
md_write(rs, w, str, src) ==
    [w |-> w, s |-> str, title |-> <<>>, turn |-> rs.turn_id, src |-> src]

\* flush_thinking_buffer(thinking_buffer, md_file, config) on the renderer's state
render_flush(rs, cfg) ==
    [rs EXCEPT !.md_file = @ \o
        [k \in 1..Len(flush_thinking_buffer(rs.thinking_buffer, cfg)) |->
            [w |-> "thinking",
             s |-> flush_thinking_buffer(rs.thinking_buffer, cfg)[k].s,
             title |-> flush_thinking_buffer(rs.thinking_buffer, cfg)[k].title,
             turn |-> rs.turn_id, src |-> rs.thinking_src]]]

\* render_begin_turn with line 500 left out: the buffer of the previous turn stays
render_begin_turn_keeps_buffer(rs, turn, request_obj) ==
    LET r == [rs EXCEPT !.turn_id = turn, !.seg = 0]
    IN  [r EXCEPT
            !.md_file = @
                \o (IF ~rs.first_turn THEN <<md_write(r, "separator", <<>>, <<>>)>>
                    ELSE <<>>)
                \o <<md_write(r, "turn_header", str_int(turn), <<>>),
                     md_write(r, "user_header", <<>>, <<>>),
                     md_write(r, "user_text", message_text(request_obj), <<>>),
                     md_write(r, "assistant_header", <<>>, <<>>)>>,
            !.last_tool_name = <<>>]

\* lines 484-501: the head of a turn
render_begin_turn(rs, turn, request_obj) ==
    LET r == [rs EXCEPT !.turn_id = turn, !.seg = 0]
    IN  [r EXCEPT
            !.md_file = @
                \o (IF ~rs.first_turn THEN <<md_write(r, "separator", <<>>, <<>>)>>
                    ELSE <<>>)
                \o <<md_write(r, "turn_header", str_int(turn), <<>>),
                     md_write(r, "user_header", <<>>, <<>>),
                     md_write(r, "user_text", message_text(request_obj), <<>>),
                     md_write(r, "assistant_header", <<>>, <<>>)>>,
            !.thinking_buffer = <<>>,
            !.thinking_src = <<>>,
            !.last_tool_name = <<>>]

\* resolve_tool_name preferring the remembered name to the tool's own
resolve_tool_name_remembered_first(toolName, remembered) ==
    IF remembered # <<>> THEN remembered
    ELSE IF toolName # <<>> THEN toolName
    ELSE STR_Unknown_Tool

\* lines 545-547: the tool's own name, else the remembered one, else "Unknown Tool"
resolve_tool_name(toolName, remembered) ==
    IF toolName # <<>> THEN toolName
    ELSE IF remembered # <<>> THEN remembered
    ELSE STR_Unknown_Tool

\* lines 550-555
inv_msg_str_of(resp) ==
    IF resp.x.invMsgType \in {"dict", "str"} THEN resp.x.invMsg ELSE <<>>

\* lines 545-559: tool_name as line 563 reads it
effective_tool_name(resp, remembered) ==
    LET tool_name == resolve_tool_name(resp.x.toolName, remembered)
        inv_msg_str == inv_msg_str_of(resp)
    IN  IF tool_name = STR_Unknown_Tool /\ startswith(inv_msg_str, STR_Using)
        THEN strip_chars(replace(inv_msg_str, STR_Using, <<>>), {"\""})
        ELSE tool_name

\* is_apply_patch looking at the tool name only
is_apply_patch_name_only(tool_name, inv_msg_str) ==
    contains(tool_name, STR_Apply_Patch)

\* line 563
is_apply_patch(tool_name, inv_msg_str) ==
    contains(tool_name, STR_Apply_Patch) \/ contains(inv_msg_str, STR_Apply_Patch)

\* lines 570-610: clean_msg.  The invocation messages of the model hold neither
\* "[]" nor "file://" nor '/', so extract_file_path returns the message, no
\* pattern matches and line 610 applies.
clean_msg_of(inv_msg_str) == inv_msg_str

\* dt.strftime('%Y-%m-%d %H:%M:%S') of a timestamp in ms below one minute,
\* local time being UTC
time_str(ts) ==
    <<"1", "9", "7", "0", "-", "0", "1", "-", "0", "1", " ", "0", "0", ":", "0", "0", ":">>
        \o (IF (ts \div 1000) < 10 THEN <<"0">> ELSE <<>>) \o str_int(ts \div 1000)

\* lines 615-637: the writes of the tool output
tool_output_writes(rs, resp, cfg, src) ==
    IF resp.x.tsdKind = "terminal"
    THEN (IF resp.x.commandLine # <<>>
          THEN <<md_write(rs, "command", resp.x.commandLine, src)>> ELSE <<>>)
         \o (IF resp.x.termOutput # <<>>
             THEN <<md_write(rs, "output",
                        IF cfg.full_terminal
                        THEN strip_ansi_codes(resp.x.termOutput)
                        ELSE truncate_output(strip_ansi_codes(resp.x.termOutput),
                                             HEAD_LINES, TAIL_LINES),
                        src)>>
             ELSE <<>>)
    ELSE IF resp.x.tsdKind = "todoList"
    THEN <<md_write(rs, "todo_header", <<>>, src)>>
         \o [k \in 1..Len(resp.x.todos) |->
                md_write(rs, "todo_item",
                         resp.x.todos[k].status \o resp.x.todos[k].title, src)]
         \o <<md_write(rs, "todo_end", <<>>, src)>>
    ELSE <<>>

\* lines 524-639: a toolInvocationSerialized segment.  tool_names records, as
\* history, tool_name as line 563 reads it.
render_tool(rs, resp, cfg) ==
    LET src == <<rs.seg>>
        inv_msg_str == inv_msg_str_of(resp)
        tool_name == effective_tool_name(resp, rs.last_tool_name)
    IN  [rs EXCEPT
            !.md_file = @
                \o (IF cfg.html_style /\ resp.x.tsdKind # "absent"
                          /\ resp.x.timestamp # 0
                    THEN <<md_write(rs, "time", time_str(resp.x.timestamp), src)>>
                    ELSE <<>>)
                \o (IF is_apply_patch(tool_name, inv_msg_str) /\ cfg.no_edit_patch
                    THEN <<>>
                    ELSE IF inv_msg_str # <<>>
                    THEN <<md_write(rs, "action", clean_msg_of(inv_msg_str), src)>>
                    ELSE <<>>)
                \o tool_output_writes(rs, resp, cfg, src),
            !.tool_names = Append(@, [turn |-> rs.turn_id, seg |-> rs.seg,
                                      name |-> tool_name]),
            !.last_tool_name = <<>>]

\* every edit.get('text', '') of content['edits'], in order
edit_texts(edits) == join(edits)

\* render_edit_group with line 685 left out: last_edit_path keeps its value
render_edit_group_keeps_path(rs, content, cfg) ==
    LET src == <<rs.seg>>
        display_path == display_path_of(rs.last_edit_path)
        texts == [k \in 1..Len(edit_texts(content.x.edits)) |->
                     md_write(rs, "edit_text", edit_texts(content.x.edits)[k], src)]
    IN  [rs EXCEPT
            !.md_file = @ \o
                (IF ~cfg.no_edit_patch
                 THEN IF cfg.html_style
                      THEN <<md_write(rs, "edit_summary", display_path, src),
                             md_write(rs, "edit_fence", <<>>, src)>>
                           \o texts
                           \o <<md_write(rs, "edit_end_details", <<>>, src)>>
                      ELSE <<md_write(rs, "edit_label", display_path, src),
                             md_write(rs, "edit_fence", <<>>, src)>>
                           \o texts
                           \o <<md_write(rs, "edit_end", <<>>, src)>>
                 ELSE <<md_write(rs, "edit_hidden", display_path, src)>>)]

\* lines 649-685: a textEditGroup segment
render_edit_group(rs, content, cfg) ==
    LET src == <<rs.seg>>
        display_path == display_path_of(rs.last_edit_path)
        texts == [k \in 1..Len(edit_texts(content.x.edits)) |->
                     md_write(rs, "edit_text", edit_texts(content.x.edits)[k], src)]
    IN  [rs EXCEPT
            !.md_file = @ \o
                (IF ~cfg.no_edit_patch
                 THEN IF cfg.html_style
                      THEN <<md_write(rs, "edit_summary", display_path, src),
                             md_write(rs, "edit_fence", <<>>, src)>>
                           \o texts
                           \o <<md_write(rs, "edit_end_details", <<>>, src)>>
                      ELSE <<md_write(rs, "edit_label", display_path, src),
                             md_write(rs, "edit_fence", <<>>, src)>>
                           \o texts
                           \o <<md_write(rs, "edit_end", <<>>, src)>>
                 ELSE <<md_write(rs, "edit_hidden", display_path, src)>>),
            !.last_edit_path = EditPathNone]

\* lines 509-510: the flush before a segment that is no thinking segment
render_flush_and_empty(rs, cfg) ==
    [render_flush(rs, cfg) EXCEPT !.seg = @ + 1,
                                  !.thinking_buffer = <<>>,
                                  !.thinking_src = <<>>]

\* lines 512-685: the branches of the segment types other than thinking
render_segment(r, part, cfg) ==
    IF part.type = "text"
    THEN IF strip(strip_ansi_codes(part.text)) # <<>>
         THEN [r EXCEPT !.md_file =
                  Append(@, md_write(r, "text", strip_ansi_codes(part.text),
                                     <<r.seg>>))]
         ELSE r
    ELSE IF part.type = "prepareToolInvocation"
    THEN [r EXCEPT !.last_tool_name = part.resp.x.toolName]
    ELSE IF part.type = "toolInvocationSerialized"
    THEN render_tool(r, part.resp, cfg)
    ELSE IF part.type = "codeblockUri"
    THEN [r EXCEPT !.last_edit_path =
             IF part.resp.x.uriPath # <<>>
             THEN EditPath(to_relative_path(part.resp.x.uriPath))
             ELSE EditPath(STR_Unknown_File)]
    ELSE IF part.type = "textEditGroup"
    THEN render_edit_group(r, part.resp, cfg)
    ELSE r

\* lines 503-685: one pass of the loop over `processed`
render_part(rs, part, cfg) ==
    IF part.type = "thinking"
    THEN [rs EXCEPT !.seg = @ + 1,
                    !.thinking_buffer = Append(@, part.resp),
                    !.thinking_src = Append(@, rs.seg + 1)]
    ELSE render_segment(render_flush_and_empty(rs, cfg), part, cfg)

\* lines 687-691: the end of a turn.  thinking_buffer is flushed and keeps its
\* items; line 500 replaces it when the next turn begins.
render_end_turn(rs, cfg) ==
    [render_flush(rs, cfg) EXCEPT
        !.md_file = Append(@, md_write(rs, "rule", <<>>, <<>>)),
        !.first_turn = FALSE]

(***************************************************************************)
(* Rendering as a state machine: the turns of one group are rendered into  *)
(* the group's file, one entry of `processed` per step.                    *)
(***************************************************************************)
MaxRenderTurns == 2
MaxRenderParts == 3

\* The response events of the rendered turns.  An entry of `processed` is what
\* process_response_stream makes of one of them.
EV_think_titled == [Ev("thinking", TRUE, <<"t">>) EXCEPT !.x.generatedTitle = <<"G">>]
EV_think_bold == Ev("thinking", TRUE, <<"*", "*", "B", "*", "*", "\n", "x">>)
EV_think_blank == Ev("thinking", TRUE, <<" ">>)
EV_prepare_P == [EV_prepare EXCEPT !.x.toolName = <<"P">>]
EV_tool_named ==
    [EV_tool EXCEPT !.x.toolName = <<"N">>, !.x.invMsgType = "str", !.x.invMsg = <<"R", "u", "n">>]
EV_tool_using ==
    [EV_tool EXCEPT !.x.invMsgType = "dict", !.x.invMsg = <<"U", "s", "i", "n", "g", " ", "\"", "A", "p", "p", "l", "y", " ", "P", "a", "t", "c", "h", "\"">>]

RenderEvents ==
    {EV_text_a, EV_think_titled, EV_think_bold, EV_think_blank,
     EV_prepare, EV_prepare_P, EV_tool, EV_tool_named, EV_tool_using}

\* processed = process_response_stream(responses), for one event
PartsOf1(E) == {process_response_stream(<<e>>)[1] : e \in E}

\* the configurations the command line builds (lines 722-745): agent, human
\* and fullout mode
CONFIG_agent == [no_edit_patch |-> TRUE, full_terminal |-> FALSE, html_style |-> FALSE]
CONFIG_human == [no_edit_patch |-> TRUE, full_terminal |-> FALSE, html_style |-> TRUE]
CONFIG_fullout == [no_edit_patch |-> FALSE, full_terminal |-> FALSE, html_style |-> FALSE]
RenderConfigs == {CONFIG_agent, CONFIG_human, CONFIG_fullout}

\* the request of a group's first turn, and of a turn that continues it
REQ_first == [hasText |-> TRUE, text |-> MSG_fix_bug]
REQ_continue == [hasText |-> TRUE, text |-> MSG_Continue]

render_state ==
    [md_file |-> md_file, first_turn |-> first_turn, turn_id |-> turn_id, seg |-> seg,
     thinking_buffer |-> thinking_buffer, thinking_src |-> thinking_src,
     last_tool_name |-> last_tool_name, last_edit_path |-> last_edit_path,
     tool_names |-> tool_names]

render_becomes(rs) ==
    /\ md_file' = rs.md_file
    /\ first_turn' = rs.first_turn
    /\ turn_id' = rs.turn_id
    /\ seg' = rs.seg
    /\ thinking_buffer' = rs.thinking_buffer
    /\ thinking_src' = rs.thinking_src
    /\ last_tool_name' = rs.last_tool_name
    /\ last_edit_path' = rs.last_edit_path
    /\ tool_names' = rs.tool_names

\* lines 484-501
RenderBeginTurn ==
    /\ rpc \in {"open", "ended"}
    /\ turn_id < MaxRenderTurns
    /\ render_becomes(render_begin_turn(render_state, turn_id + 1,
                                        IF first_turn THEN REQ_first ELSE REQ_continue))
    /\ rpc' = "turn"
    /\ UNCHANGED <<config, rendered>>
    /\ UNCHANGED <<gvars, svars, tvars, fvars>>

\* lines 503-685, for the next entry of `processed`
RenderPartFrom(E) ==
    /\ rpc = "turn"
    /\ Len(rendered) < MaxRenderParts
    /\ \E part \in PartsOf1(E) :
        /\ render_becomes(render_part(render_state, part, config))
        /\ rendered' = Append(rendered, [turn |-> turn_id, part |-> part])
    /\ UNCHANGED <<config, rpc>>
    /\ UNCHANGED <<gvars, svars, tvars, fvars>>

RenderPart == RenderPartFrom(RenderEvents)

\* lines 687-691
RenderEndTurn ==
    /\ rpc = "turn"
    /\ render_becomes(render_end_turn(render_state, config))
    /\ rpc' = "ended"
    /\ UNCHANGED <<config, rendered>>
    /\ UNCHANGED <<gvars, svars, tvars, fvars>>

InitRender ==
    /\ config \in RenderConfigs
    /\ md_file = <<>>
    /\ first_turn = TRUE
    /\ turn_id = 0
    /\ seg = 0
    /\ thinking_buffer = <<>>
    /\ thinking_src = <<>>
    /\ last_tool_name = <<>>
    /\ last_edit_path = EditPathUnbound
    /\ tool_names = <<>>
    /\ rendered = <<>>
    /\ rpc = "open"
    /\ InitGroupIdle
    /\ InitStreamIdle
    /\ InitTruncIdle
    /\ InitRunIdle

NextRender ==
    \/ RenderBeginTurn
    \/ RenderPart
    \/ RenderEndTurn

SpecRender == InitRender /\ [][NextRender]_vars

(***************************************************************************)
(* Claims about the thinking buffer and the remembered tool name           *)
(***************************************************************************)
Elems(q) == {q[k] : k \in DOMAIN q}

\* the number of entries of `processed` consumed in the turns before turn t
TurnStart(t) == Cardinality({k \in DOMAIN rendered : rendered[k].turn < t})

\* entry i of `processed` of turn t
RenderedAt(t, i) == rendered[TurnStart(t) + i].part

\* the last entry of the current turn that is no thinking segment, 0 if none
LastNonThinking ==
    LET S == {i \in 1..seg : RenderedAt(turn_id, i).type # "thinking"}
    IN  IF S = {} THEN 0 ELSE max_of(S)

\* the writes of a turn stand in the order of the segments they render, a
\* thinking write holds thinking segments only, and no segment is written twice
ThinkingInSegmentOrder ==
    \A p, q \in DOMAIN md_file :
        (md_file[p].w = "thinking" /\ p # q /\ md_file[p].turn = md_file[q].turn)
            => /\ \A a \in Elems(md_file[p].src) :
                    RenderedAt(md_file[p].turn, a).type = "thinking"
               /\ \A a \in Elems(md_file[p].src), b \in Elems(md_file[q].src) :
                    (a < b) <=> (p < q)

\* inside a turn the buffer holds exactly the thinking segments consumed since
\* the last segment that is no thinking segment: it was emptied when that
\* segment was rendered, and a new turn starts with an empty buffer
BufferIsTrailingRun ==
    rpc = "turn"
        => /\ thinking_src = [k \in 1..(seg - LastNonThinking) |-> LastNonThinking + k]
           /\ thinking_buffer =
                [k \in 1..(seg - LastNonThinking) |->
                    RenderedAt(turn_id, LastNonThinking + k).resp]

\* the buffered segments are not in the file yet
BufferedNotWritten ==
    rpc = "turn"
        => \A p \in DOMAIN md_file :
              (md_file[p].w = "thinking" /\ md_file[p].turn = turn_id)
                  => Elems(md_file[p].src) \cap Elems(thinking_src) = {}

\* the end of a turn writes what the buffer renders to, right before the rule
FlushedAtTurnEnd ==
    (rpc = "ended" /\ flush_thinking_buffer(thinking_buffer, config) # <<>>)
        => /\ Len(md_file) >= 2
           /\ md_file[Len(md_file) - 1].w = "thinking"
           /\ md_file[Len(md_file) - 1].turn = turn_id
           /\ md_file[Len(md_file) - 1].src = thinking_src
           /\ md_file[Len(md_file) - 1].s
                = flush_thinking_buffer(thinking_buffer, config)[1].s

\* C19, as the code has it: thinking segments are only buffered; the buffer is
\* flushed and emptied right before every segment that is no thinking segment
\* is rendered; at the end of the turn it is flushed but keeps its items, and
\* it is replaced by an empty one when the next turn begins.  So the content of
\* a thinking segment stands after the output of every earlier segment and
\* before the output of every later one, is written once, and never reaches
\* the next turn.
C19_FlushedBeforeSegmentsAndAtTurnEnd ==
    /\ ThinkingInSegmentOrder
    /\ BufferIsTrailingRun
    /\ BufferedNotWritten
    /\ FlushedAtTurnEnd

\* C19 as stated: the above, and the buffer is empty when a turn has ended
C19_BufferEmptyWhenTurnEnds ==
    /\ C19_FlushedBeforeSegmentsAndAtTurnEnd
    /\ (rpc = "ended" => thinking_buffer = <<>>)

\* a turn has ended whose file holds a thinking block, then the output of a
\* later segment, then the thinking block flushed at the end of the turn,
\* whose items are still in the buffer
C19_Witness ==
    /\ rpc = "ended"
    /\ thinking_buffer # <<>>
    /\ \E p, q, r \in DOMAIN md_file :
          /\ p < q /\ q < r
          /\ md_file[p].w = "thinking" /\ md_file[p].turn = turn_id
          /\ md_file[q].w \in {"text", "action"} /\ md_file[q].turn = turn_id
          /\ md_file[r].w = "thinking" /\ md_file[r].turn = turn_id
          /\ md_file[r].src = thinking_src

\* the name line 547 finds in last_tool_name at entry i of turn t: the toolName
\* of the latest prepareToolInvocation of the turn, unless a serialized
\* invocation came after it
RememberedAt(t, i) ==
    LET S == {j \in 1..(i - 1) :
                 RenderedAt(t, j).type
                     \in {"prepareToolInvocation", "toolInvocationSerialized"}}
    IN  IF S = {} THEN <<>>
        ELSE IF RenderedAt(t, max_of(S)).type = "prepareToolInvocation"
             THEN RenderedAt(t, max_of(S)).resp.x.toolName
             ELSE <<>>

\* own name, else remembered name, else "Unknown Tool"
OwnElseRememberedElseUnknown(t, i) ==
    IF RenderedAt(t, i).resp.x.toolName # <<>> THEN RenderedAt(t, i).resp.x.toolName
    ELSE IF RememberedAt(t, i) # <<>> THEN RememberedAt(t, i)
    ELSE STR_Unknown_Tool

\* the invocation message with every "Using " taken out and the double quotes
\* at its ends stripped
NameFromMessage(t, i) ==
    strip_chars(replace(RenderedAt(t, i).resp.x.invMsg, STR_Using, <<>>), {"\""})

\* the remembered name is the one of the latest prepare event and is gone
\* after one serialized invocation and at the start of a turn
RememberedIsConsumed ==
    rpc = "turn" => last_tool_name = RememberedAt(turn_id, seg + 1)

\* C20 as stated: the effective tool name is the own name, else the remembered
\* name, else "Unknown Tool", and the remembered name serves one invocation
C20_OwnRememberedUnknown ==
    /\ \A k \in DOMAIN tool_names :
          tool_names[k].name
              = OwnElseRememberedElseUnknown(tool_names[k].turn, tool_names[k].seg)
    /\ RememberedIsConsumed

\* C20, as the code has it: the effective tool name is the own name, else the
\* remembered name, else "Unknown Tool", but where that gives "Unknown Tool"
\* and the invocation message starts with "Using ", it is the message with
\* "Using " taken out and the double quotes at its ends stripped; the remembered
\* name serves one invocation: it is gone after each serialized invocation and
\* at the start of each turn.
C20_OwnRememberedMessageUnknown ==
    /\ \A k \in DOMAIN tool_names :
          LET t == tool_names[k].turn
              i == tool_names[k].seg
          IN  tool_names[k].name
                = IF /\ OwnElseRememberedElseUnknown(t, i) = STR_Unknown_Tool
                     /\ RenderedAt(t, i).resp.x.invMsgType # "none"
                     /\ startswith(RenderedAt(t, i).resp.x.invMsg, STR_Using)
                  THEN NameFromMessage(t, i)
                  ELSE OwnElseRememberedElseUnknown(t, i)
    /\ RememberedIsConsumed

\* in one turn: a prepare event with a name, an invocation without a name that
\* takes it, and a second invocation without a name that does not
C20_Witness ==
    \E j, k \in DOMAIN tool_names :
        /\ tool_names[j].turn = tool_names[k].turn
        /\ tool_names[j].seg < tool_names[k].seg
        /\ RenderedAt(tool_names[j].turn, tool_names[j].seg).resp.x.toolName = <<>>
        /\ RenderedAt(tool_names[k].turn, tool_names[k].seg).resp.x.toolName = <<>>
        /\ RememberedAt(tool_names[j].turn, tool_names[j].seg) # <<>>
        /\ tool_names[j].name = RememberedAt(tool_names[j].turn, tool_names[j].seg)
        /\ tool_names[k].name = STR_Unknown_Tool

(***************************************************************************)
(* process_chat_json as a whole: paths, session marker, archival, files    *)
(***************************************************************************)
\* output_path.rsplit('.', 1)[0]
rsplit_dot_head(path) ==
    IF positions(path, ".") = {} THEN path
    ELSE SubSeq(path, 1, max_of(positions(path, ".")) - 1)

\* output_path.rsplit('.', 1)[1], for a path with a '.'
rsplit_dot_tail(path) == SubSeq(path, max_of(positions(path, ".")) + 1, Len(path))

\* line 278
base_path_of(path) == rsplit_dot_head(path)

\* lines 279-281
ext_of(path) ==
    IF positions(basename(path), ".") # {} THEN <<".">> \o rsplit_dot_tail(path)
    ELSE <<".", "m", "d">>

\* os.path.dirname(path), for a path without '//' and not directly under '/'
dirname(path) ==
    IF positions(path, "/") = {} THEN <<>>
    ELSE SubSeq(path, 1, max_of(positions(path, "/")) - 1)

\* line 284
out_dir_of(path) == IF dirname(path) # <<>> THEN dirname(path) ELSE <<".">>

\* line 305
session_file_of(path) == base_path_of(path) \o <<".", "s", "e", "s", "s", "i", "o", "n">>

\* requests[0].get('requestId', '')
request_id(req) == IF req.hasId THEN req.requestId ELSE <<>>

\* request_obj.get('response', [])
response_of(req) == IF "response" \in DOMAIN req THEN req.response ELSE <<>>

\* turn_numbers = [str(t[0]) for t in group]
turn_numbers(group) == [k \in 1..Len(group) |-> str_int(group[k][1])]

\* turn_output_path with the first turn number only in place of the range
turn_output_path_first_only(base_path, ext, group) ==
    base_path \o <<"_", "t", "u", "r", "n", "_">> \o turn_numbers(group)[1] \o ext

\* lines 477-479
turn_output_path(base_path, ext, group) ==
    base_path \o <<"_", "t", "u", "r", "n", "_">> \o join_sep(turn_numbers(group), <<"-">>) \o ext

\* glob.glob(os.path.join(out_dir, f"{base_name}_turn_*{ext}")) on a file of
\* out_dir, named by its basename: the name starts with base_name + '_turn_',
\* ends with ext, and '*' takes what is between
glob_match(name, base_name, ext) ==
    /\ Len(name) >= Len(base_name) + Len(<<"_", "t", "u", "r", "n", "_">>) + Len(ext)
    /\ startswith(name, base_name \o <<"_", "t", "u", "r", "n", "_">>)
    /\ endswith(name, ext)

RECURSIVE group_fold(_, _, _)
\* the loop of lines 359-370 from request i on; r holds groups and current_group
group_fold(r, reqs, i) ==
    IF i > Len(reqs) THEN r
    ELSE group_fold(group_turn(r.groups, r.current_group, i, reqs[i]), reqs, i + 1)

\* lines 371-373
group_close(r) ==
    IF r.current_group # <<>> THEN Append(r.groups, r.current_group) ELSE r.groups

\* lines 355-373
group_requests(reqs) ==
    group_close(group_fold([groups |-> <<>>, current_group |-> <<>>], reqs, 1))

RECURSIVE render_parts(_, _, _)
\* the loop of line 503 over `processed`
render_parts(rs, processed, cfg) ==
    IF processed = <<>> THEN rs
    ELSE render_parts(render_part(rs, Head(processed), cfg), Tail(processed), cfg)

RECURSIVE render_turns(_, _, _)
\* the loop of line 484 over the turns of a group
render_turns(rs, group, cfg) ==
    IF group = <<>> THEN rs
    ELSE render_turns(
            render_end_turn(
                render_parts(render_begin_turn(rs, Head(group)[1], Head(group)[2]),
                             process_response_stream(response_of(Head(group)[2])),
                             cfg),
                cfg),
            Tail(group), cfg)

RECURSIVE write_groups(_, _, _, _, _, _)
RECURSIVE write_group(_, _, _, _, _, _)
\* the loop of line 474: the files of the groups gs, as records
\* [name, run, content]; `run` is history, the run that wrote the file
write_groups(gs, cfg, edit_path, base_path, ext, run) ==
    IF gs = <<>> THEN {}
    ELSE write_group(render_turns(render_open(edit_path), Head(gs), cfg),
                     gs, cfg, base_path, ext, run)

\* the file of the first group of gs, rendered to rs, and the files of the rest
write_group(rs, gs, cfg, base_path, ext, run) ==
    {[name |-> basename(turn_output_path(base_path, ext, Head(gs))),
      run |-> run, content |-> rs.md_file]}
        \cup write_groups(Tail(gs), cfg, rs.last_edit_path, base_path, ext, run)

\* The file system as the runs see it.
fs_state ==
    [out_dir_ok |-> out_dir_ok, session_file |-> session_file,
     turn_files |-> turn_files, archive |-> archive]

fs_becomes(fs) ==
    /\ out_dir_ok' = fs.out_dir_ok
    /\ session_file' = fs.session_file
    /\ turn_files' = fs.turn_files
    /\ archive' = fs.archive

\* The best-effort operations that fail in a run: makedirs of the output
\* directory, the read of the marker, makedirs of the archive directory, the
\* renames of the files named in `rename`, the write of the marker.
NoFaults ==
    [makedirs_out |-> FALSE, read_marker |-> FALSE, makedirs_archive |-> FALSE,
     rename |-> {}, write_marker |-> FALSE]

\* run_load writing an empty marker before it looks at the input
run_load_saves_marker(fs, input, faults) ==
    IF ~input.readable
    THEN [fs |-> [fs EXCEPT !.session_file = [exists |-> TRUE, content |-> <<>>]],
          outcome |-> "unreadable", ops |-> {"marker_write"}]
    ELSE IF input.requests = <<>>
    THEN [fs |-> [fs EXCEPT !.out_dir_ok = @ \/ ~faults.makedirs_out,
                            !.session_file = [exists |-> TRUE, content |-> <<>>]],
          outcome |-> "no_requests", ops |-> {"makedirs", "marker_write"}]
    ELSE [fs |-> [fs EXCEPT !.out_dir_ok = @ \/ ~faults.makedirs_out],
          outcome |-> "loaded", ops |-> {"makedirs"}]

\* Lines 262-301: the input is read (return at 267 if that fails), the output
\* directory is made (a failure leaves the directory as it was), the requests
\* are looked at (return at 301 if there are none).  `ops` is history: the
\* operations on the file system the run has tried.
run_load(fs, input, faults) ==
    IF ~input.readable
    THEN [fs |-> fs, outcome |-> "unreadable", ops |-> {}]
    ELSE IF input.requests = <<>>
    THEN [fs |-> [fs EXCEPT !.out_dir_ok = @ \/ ~faults.makedirs_out],
          outcome |-> "no_requests", ops |-> {"makedirs"}]
    ELSE [fs |-> [fs EXCEPT !.out_dir_ok = @ \/ ~faults.makedirs_out],
          outcome |-> "loaded", ops |-> {"makedirs"}]

\* lines 308-314: old_session_id, <<>> for None and for ''
old_session_id_of(fs, faults) ==
    IF fs.out_dir_ok /\ fs.session_file.exists /\ ~faults.read_marker
    THEN strip(fs.session_file.content)
    ELSE <<>>

\* line 317
session_changed(old_session_id, first_request_id) ==
    old_session_id # <<>> /\ old_session_id # first_request_id

\* Lines 303-353: the marker is read, the old turn files are archived if the
\* session changed, the marker is saved.
run_session(fs, path, first_request_id, faults, run) ==
    LET old_session_id == old_session_id_of(fs, faults)
        archiving == session_changed(old_session_id, first_request_id)
        old_files ==
            IF archiving /\ ~faults.makedirs_archive
            THEN {f \in fs.turn_files :
                     glob_match(f.name, basename(base_path_of(path)), ext_of(path))}
            ELSE {}
        moved == {f \in old_files : f.name \notin faults.rename}
    IN  [fs |-> [fs EXCEPT
                    !.turn_files = @ \ moved,
                    !.archive = @ \cup {[by |-> run, file |-> f] : f \in moved},
                    !.session_file =
                        IF fs.out_dir_ok /\ ~faults.write_marker
                        THEN [exists |-> TRUE, content |-> first_request_id]
                        ELSE @],
         archived |-> {f.name : f \in moved},
         ops |-> (IF fs.out_dir_ok /\ fs.session_file.exists
                  THEN {"marker_read"} ELSE {})
                 \cup (IF archiving THEN {"archive"} ELSE {})
                 \cup {"marker_write"}]

\* line 481 for every group: open(turn_output_path, 'w') is not guarded, in a
\* directory that does not exist it raises and the exception ends the run at
\* the first group; else the files replace those of the same names
store_files(fs, files) ==
    IF ~fs.out_dir_ok
    THEN [fs |-> fs, outcome |-> "raised", written |-> {}, ops |-> {"turn_write"}]
    ELSE [fs |-> [fs EXCEPT !.turn_files =
                     {f \in @ : f.name \notin {g.name : g \in files}} \cup files],
          outcome |-> "written",
          written |-> {g.name : g \in files},
          ops |-> {"turn_write"}]

\* lines 355-690: the requests are grouped and one file per group is written
run_write(fs, path, reqs, cfg, run) ==
    store_files(fs, write_groups(group_requests(reqs), cfg, EditPathUnbound,
                                 base_path_of(path), ext_of(path), run))

(***************************************************************************)
(* Runs of process_chat_json, one after another, on one output path        *)
(***************************************************************************)
MaxRuns == 2
MaxRunTurns == 2

OutputPaths == {<<"c", "h", "a", "t", ".", "m", "d">>, <<"o", "u", "t", "/", "l", "o", "g", ".", "t", "x", "t">>}

ID_r1 == <<"r", "1">>
ID_r2 == <<"r", "2">>
\* a requestId with a blank in front
ID_r1_padded == <<" ", "r", "1">>

\* a request of the input: its message text and its requestId (hasId: the key
\* is there); it has no 'response'
RunReq(text, hasId, id) ==
    [hasText |-> TRUE, text |-> text, hasId |-> hasId, requestId |-> id]

FirstRequests ==
    {RunReq(MSG_fix_bug, FALSE, <<>>), RunReq(MSG_fix_bug, TRUE, ID_r1),
     RunReq(MSG_fix_bug, TRUE, ID_r2), RunReq(MSG_fix_bug, TRUE, ID_r1_padded)}

LaterRequests == {RunReq(MSG_fix_bug, FALSE, <<>>), RunReq(MSG_Continue, FALSE, <<>>)}

\* the lists data['requests'] of the inputs
RunRequestLists ==
    {<<>>} \cup UNION {{q \in [1..n -> FirstRequests \cup LaterRequests] :
                           /\ q[1] \in FirstRequests
                           /\ \A k \in 2..n : q[k] \in LaterRequests}
                       : n \in 1..MaxRunTurns}

\* an input file that cannot be read or parsed
INPUT_unreadable == [readable |-> FALSE, requests |-> <<>>]

RunInputs ==
    {INPUT_unreadable} \cup {[readable |-> TRUE, requests |-> q] : q \in RunRequestLists}

\* the inputs of the runs in which side operations fail: a session r1 of two
\* groups and a session r2 of one group
FaultyInputs ==
    {[readable |-> TRUE,
      requests |-> <<RunReq(MSG_fix_bug, TRUE, ID_r1), RunReq(MSG_fix_bug, FALSE, <<>>)>>],
     [readable |-> TRUE, requests |-> <<RunReq(MSG_fix_bug, TRUE, ID_r2)>>]}

\* the names of the file of turn 1 under the two output paths
FirstTurnFiles == {<<"c", "h", "a", "t", "_", "t", "u", "r", "n", "_", "1", ".", "m", "d">>, <<"l", "o", "g", "_", "t", "u", "r", "n", "_", "1", ".", "t", "x", "t">>}

\* no failure, or the failure of one side operation
FaultChoices ==
    {NoFaults,
     [NoFaults EXCEPT !.makedirs_out = TRUE],
     [NoFaults EXCEPT !.read_marker = TRUE],
     [NoFaults EXCEPT !.makedirs_archive = TRUE],
     [NoFaults EXCEPT !.rename = FirstTurnFiles],
     [NoFaults EXCEPT !.write_marker = TRUE]}

\* the run in progress, or the last one
current_run == runs[Len(runs)]

\* lines 262-301
BeginRunFrom(Inputs, Faults) ==
    /\ upc = "idle"
    /\ Len(runs) < MaxRuns
    /\ \E input \in Inputs, faults \in Faults :
          LET r == run_load(fs_state, input, faults)
          IN  /\ fs_becomes(r.fs)
              /\ requests' = input.requests
              /\ upc' = IF r.outcome = "loaded" THEN "loaded" ELSE "idle"
              /\ runs' = Append(runs,
                    [input |-> input, faults |-> faults,
                     marker_before |-> session_file, files_before |-> turn_files,
                     ops |-> r.ops, outcome |-> r.outcome,
                     archived |-> {}, written |-> {}])
    /\ groups' = <<>>
    /\ UNCHANGED <<output_path, gi, current_group, gpc>>
    /\ UNCHANGED <<svars, tvars, rvars>>

BeginRun == BeginRunFrom(RunInputs, {NoFaults})

BeginRunFaulty == BeginRunFrom(FaultyInputs, FaultChoices)

\* lines 303-353
RunSession ==
    /\ upc = "loaded"
    /\ LET r == run_session(fs_state, output_path, request_id(requests[1]),
                            current_run.faults, Len(runs))
       IN  /\ fs_becomes(r.fs)
           /\ runs' = [runs EXCEPT ![Len(runs)].ops = @ \cup r.ops,
                                   ![Len(runs)].archived = r.archived]
    /\ upc' = "session"
    /\ UNCHANGED output_path
    /\ UNCHANGED <<gvars, svars, tvars, rvars>>

\* lines 355-690
RunWrite ==
    /\ upc = "session"
    /\ LET r == run_write(fs_state, output_path, requests, config, Len(runs))
       IN  /\ fs_becomes(r.fs)
           /\ runs' = [runs EXCEPT ![Len(runs)].ops = @ \cup r.ops,
                                   ![Len(runs)].outcome = r.outcome,
                                   ![Len(runs)].written = r.written]
    /\ groups' = group_requests(requests)
    /\ upc' = "idle"
    /\ UNCHANGED <<output_path, requests, gi, current_group, gpc>>
    /\ UNCHANGED <<svars, tvars, rvars>>

InitRun ==
    /\ output_path \in OutputPaths
    /\ out_dir_ok = FALSE
    /\ session_file = [exists |-> FALSE, content |-> <<>>]
    /\ turn_files = {}
    /\ archive = {}
    /\ runs = <<>>
    /\ upc = "idle"
    /\ InitGroupIdle
    /\ InitStreamIdle
    /\ InitTruncIdle
    /\ InitRenderIdle

NextRun ==
    \/ BeginRun
    \/ RunSession
    \/ RunWrite

SpecRun == InitRun /\ [][NextRun]_vars

NextRunFaulty ==
    \/ BeginRunFaulty
    \/ RunSession
    \/ RunWrite

SpecRunFaulty == InitRun /\ [][NextRunFaulty]_vars

(***************************************************************************)
(* Claims about the files, the session marker and the archive              *)
(***************************************************************************)
\* the run before the current one
previous_run == runs[Len(runs) - 1]

\* a run has finished and has written its files
RunWritten == upc = "idle" /\ runs # <<>> /\ current_run.outcome = "written"

\* base path and extension of the two output paths, spelled out
ExpectedBaseName == IF output_path = <<"c", "h", "a", "t", ".", "m", "d">> THEN <<"c", "h", "a", "t">> ELSE <<"l", "o", "g">>
ExpectedExt == IF output_path = <<"c", "h", "a", "t", ".", "m", "d">> THEN <<".", "m", "d">> ELSE <<".", "t", "x", "t">>

RECURSIVE TurnRange(_)
\* the turn numbers of a group joined by '-'
TurnRange(group) ==
    IF Len(group) = 1 THEN str_int(group[1][1])
    ELSE str_int(group[1][1]) \o <<"-">> \o TurnRange(Tail(group))

ExpectedName(group) == ExpectedBaseName \o <<"_", "t", "u", "r", "n", "_">> \o TurnRange(group) \o ExpectedExt

IsHeaderWrite(wr) == wr.w \in {"turn_header", "user_header", "assistant_header"}

\* the content holds one '# Turn n' / '## User' / '## Assistant' block per
\* turn of the group, in turn order
HasBlocksOf(content, group) ==
    LET hdr == SelectSeq(content, IsHeaderWrite)
    IN  /\ Len(hdr) = 3 * Len(group)
        /\ \A j \in 1..Len(group) :
              /\ hdr[3 * j - 2].w = "turn_header"
              /\ hdr[3 * j - 2].s = str_int(group[j][1])
              /\ hdr[3 * j - 1].w = "user_header"
              /\ hdr[3 * j].w = "assistant_header"

C13_RerunChangesNothing ==
    (/\ RunWritten
     /\ Len(runs) >= 2
     /\ previous_run.outcome = "written"
     /\ current_run.input = previous_run.input
     /\ current_run.marker_before
            = [exists |-> TRUE, content |-> request_id(requests[1])])
        => /\ "archive" \notin current_run.ops
           /\ current_run.archived = {}
           /\ archive = {}
           /\ current_run.written = previous_run.written
           /\ session_file = current_run.marker_before

\* C14: a run whose first requestId differs from the marker the run before it
\* stored has, before it writes a turn file, moved every turn file it found
\* into the archive: none of them is left in the output directory, and no file
\* is archived by the run that wrote it.
C14_ChangedSessionArchivesAll ==
    (/\ Len(runs) >= 2
     /\ upc \in {"session", "idle"}
     /\ current_run.outcome \in {"loaded", "written"}
     /\ previous_run.outcome = "written"
     /\ current_run.marker_before.exists
     /\ current_run.marker_before.content # request_id(requests[1]))
        => /\ \A f \in current_run.files_before :
                 /\ f \notin turn_files
                 /\ [by |-> Len(runs), file |-> f] \in archive
           /\ \A a \in archive : a.file.run < a.by
           /\ upc = "session" => turn_files = {}

\* C15: a run whose input cannot be read, or holds no requests, writes no turn
\* file, neither reads nor writes the session marker and archives nothing.
C15_NothingTouchedWithoutRequests ==
    (runs # <<>> /\ current_run.outcome \in {"unreadable", "no_requests"})
        => /\ upc = "idle"
           /\ current_run.written = {}
           /\ current_run.archived = {}
           /\ current_run.ops
                \cap {"marker_read", "marker_write", "archive", "turn_write"} = {}
           /\ session_file = current_run.marker_before
           /\ turn_files = current_run.files_before
           /\ \A a \in archive : a.by < Len(runs)

\* a run without requests, and a run that cannot read its input, each after a
\* run that left a marker and turn files
C15_Witness ==
    /\ Len(runs) = 2
    /\ current_run.outcome \in {"unreadable", "no_requests"}
    /\ current_run.marker_before.exists
    /\ current_run.files_before # {}
    /\ current_run.input.readable
    /\ "makedirs" \in current_run.ops

\* C16: the failure of a side operation never ends the run: the run writes one
\* file per group, and a rename that fails does not keep the other files from
\* being archived.
C16_SideFailuresNeverAbort ==
    (upc = "idle" /\ runs # <<>>)
        => /\ current_run.outcome = "written"
           /\ Cardinality(current_run.written) = Len(groups)
           /\ ("archive" \in current_run.ops /\ ~current_run.faults.makedirs_archive)
                => current_run.archived
                     = {f.name : f \in current_run.files_before} \ current_run.faults.rename

(***************************************************************************)
(* Rendering serialized tool invocations: action line and tool output      *)
(***************************************************************************)
MSG_Edit == <<"E", "d", "i", "t">>
MSG_Apply_Patch_on_f == <<"A", "p", "p", "l", "y", " ", "P", "a", "t", "c", "h", " ", "o", "n", " ", "f">>

\* a prepare event that announces the file-patch tool
EV_prepare_patch == [EV_prepare EXCEPT !.x.toolName = STR_Apply_Patch]
\* the file-patch tool by its own name, with a message that does not name it
EV_tool_patch ==
    [EV_tool EXCEPT !.x.toolName = STR_Apply_Patch,
                    !.x.invMsgType = "str", !.x.invMsg = MSG_Edit]
\* a tool of another name whose message names the file-patch tool, with
\* terminal output
EV_tool_patch_msg_terminal ==
    [EV_tool EXCEPT !.x.toolName = <<"N">>,
                    !.x.invMsgType = "dict", !.x.invMsg = MSG_Apply_Patch_on_f,
                    !.x.tsdKind = "terminal",
                    !.x.commandLine = <<"l", "s">>, !.x.termOutput = <<"o">>,
                    !.x.timestamp = 1000]
\* a tool without a name of its own, with a message and a todo list
EV_tool_todo ==
    [EV_tool EXCEPT !.x.invMsgType = "str", !.x.invMsg = MSG_Edit,
                    !.x.tsdKind = "todoList",
                    !.x.todos = <<[status |-> <<"d", "o", "n", "e">>, title |-> <<"a">>]>>]
\* a tool with terminal output and no message
EV_tool_terminal ==
    [EV_tool EXCEPT !.x.toolName = <<"N">>,
                    !.x.tsdKind = "terminal",
                    !.x.commandLine = <<"l", "s">>, !.x.termOutput = <<"o">>]

ToolEvents ==
    {EV_prepare_patch, EV_tool, EV_tool_named, EV_tool_using, EV_tool_patch,
     EV_tool_patch_msg_terminal, EV_tool_todo, EV_tool_terminal}

RenderToolPart == RenderPartFrom(ToolEvents)

NextRenderTools ==
    \/ RenderBeginTurn
    \/ RenderToolPart
    \/ RenderEndTurn

SpecRenderTools == InitRender /\ [][NextRenderTools]_vars

\* the entries of `processed` rendered so far that are serialized invocations
ToolEntries ==
    {k \in DOMAIN rendered : rendered[k].part.type = "toolInvocationSerialized"}

\* the position of entry k in its turn
SegOf(k) == k - TurnStart(rendered[k].turn)

\* the writes of kind w that render entry k
WritesOf(k, w) ==
    {p \in DOMAIN md_file :
        /\ md_file[p].w = w
        /\ md_file[p].turn = rendered[k].turn
        /\ md_file[p].src = <<SegOf(k)>>}

\* the effective tool name of entry k: own name, else remembered name, else
\* the name the "Using " message gives, else "Unknown Tool"
EffectiveNameOf(k) ==
    IF /\ OwnElseRememberedElseUnknown(rendered[k].turn, SegOf(k)) = STR_Unknown_Tool
       /\ rendered[k].part.resp.x.invMsgType # "none"
       /\ startswith(rendered[k].part.resp.x.invMsg, STR_Using)
    THEN NameFromMessage(rendered[k].turn, SegOf(k))
    ELSE OwnElseRememberedElseUnknown(rendered[k].turn, SegOf(k))

\* the invocation message of entry k, empty if there is none
MessageOf(k) ==
    IF rendered[k].part.resp.x.invMsgType = "none" THEN <<>>
    ELSE rendered[k].part.resp.x.invMsg

\* entry k is a file-patch action
IsFilePatch(k) ==
    \/ contains(EffectiveNameOf(k), STR_Apply_Patch)
    \/ contains(MessageOf(k), STR_Apply_Patch)

\* C21: for every serialized tool invocation the "> **Action:**" line is
\* written, once, if and only if the invocation message is non-empty and it is
\* not the case that the tool is a file-patch action (effective tool name or
\* message contains "Apply Patch") while no_edit_patch is configured; the
\* command, the output and the todo list of the invocation are written
\* whether or not the action line is.
C21_ActionLineIffMessageAndNotHiddenPatch ==
    \A k \in ToolEntries :
        /\ Cardinality(WritesOf(k, "action"))
              = IF MessageOf(k) # <<>> /\ ~(IsFilePatch(k) /\ config.no_edit_patch)
                THEN 1 ELSE 0
        /\ \A p \in WritesOf(k, "action") : md_file[p].s = MessageOf(k)
        /\ (rendered[k].part.resp.x.tsdKind = "terminal"
              => /\ Cardinality(WritesOf(k, "command"))
                    = IF rendered[k].part.resp.x.commandLine # <<>> THEN 1 ELSE 0
                 /\ Cardinality(WritesOf(k, "output"))
                    = IF rendered[k].part.resp.x.termOutput # <<>> THEN 1 ELSE 0)
        /\ (rendered[k].part.resp.x.tsdKind = "todoList"
              => /\ Cardinality(WritesOf(k, "todo_header")) = 1
                 /\ Cardinality(WritesOf(k, "todo_item"))
                    = Len(rendered[k].part.resp.x.todos))

\* no_edit_patch is configured and two invocations were rendered: one whose
\* action line is suppressed because the message names the file-patch tool,
\* with its command and output written; one with a todo list whose action
\* line is written
C21_Witness ==
    /\ config.no_edit_patch
    /\ \E j, l \in ToolEntries :
          /\ rendered[j].part.resp.x.toolName = <<"N">>
          /\ contains(MessageOf(j), STR_Apply_Patch)
          /\ WritesOf(j, "action") = {}
          /\ WritesOf(j, "command") # {}
          /\ WritesOf(j, "output") # {}
          /\ rendered[l].part.resp.x.tsdKind = "todoList"
          /\ WritesOf(l, "action") # {}
          /\ WritesOf(l, "todo_item") # {}

(***************************************************************************)
(* Rendering codeblockUri and textEditGroup segments: the last edit path   *)
(***************************************************************************)
PATH_other == <<"/", "x", "/", "g">>

\* a codeblockUri with a path under the project root, one with a path outside
\* of it (EV_codeblockUri has no path), and a textEditGroup with one edit text
\* (EV_textEditGroup has no edits)
EV_uri_file == [EV_codeblockUri EXCEPT !.x.uriPath = PATH_file]
EV_uri_other == [EV_codeblockUri EXCEPT !.x.uriPath = PATH_other]
EV_edit_x == [EV_textEditGroup EXCEPT !.x.edits = << <<<<"x">>>> >>]

EditEvents ==
    {EV_text_a, EV_codeblockUri, EV_uri_file, EV_uri_other,
     EV_textEditGroup, EV_edit_x}

RenderEditPart == RenderPartFrom(EditEvents)

\* lines 474-482: the file of the next group is opened.  The locals of
\* process_chat_json other than md_file and first_turn keep their values;
\* turn_num goes on counting.
RenderNextFile ==
    /\ rpc = "ended"
    /\ turn_id < MaxRenderTurns
    /\ md_file' = <<>>
    /\ first_turn' = TRUE
    /\ rpc' = "open"
    /\ UNCHANGED <<config, turn_id, seg, thinking_buffer, thinking_src,
                   last_tool_name, last_edit_path, tool_names, rendered>>
    /\ UNCHANGED <<gvars, svars, tvars, fvars>>

InitRenderEdits ==
    /\ config \in RenderConfigs
    /\ md_file = <<>>
    /\ first_turn = TRUE
    /\ turn_id = 0
    /\ seg = 0
    /\ thinking_buffer = <<>>
    /\ thinking_src = <<>>
    /\ last_tool_name = <<>>
    /\ last_edit_path = EditPathUnbound
    /\ tool_names = <<>>
    /\ rendered = <<>>
    /\ rpc = "open"
    /\ PROJECT_ROOT \in ProjectRoots
    /\ responses = <<>>
    /\ result_parts = <<>>
    /\ current_text = <<>>
    /\ text_src = <<>>
    /\ part_src = <<>>
    /\ spc = "idle"
    /\ InitGroupIdle
    /\ InitTruncIdle
    /\ InitRunIdle

NextRenderEdits ==
    \/ RenderBeginTurn
    \/ RenderEditPart
    \/ RenderEndTurn
    \/ RenderNextFile

SpecRenderEdits == InitRenderEdits /\ [][NextRenderEdits]_vars

\* the entries of `processed` rendered so far, by type
EditEntries == {k \in DOMAIN rendered : rendered[k].part.type = "textEditGroup"}
UriEntries == {k \in DOMAIN rendered : rendered[k].part.type = "codeblockUri"}

\* the writes that label entry k with a path, in the file being written
LabelWrites(k) ==
    WritesOf(k, "edit_summary") \cup WritesOf(k, "edit_label")
        \cup WritesOf(k, "edit_hidden")

\* the textEditGroup entries whose label is in the file being written
LabelledEdits == {k \in EditEntries : LabelWrites(k) # {}}

\* the path a codeblockUri entry records
RecordedBy(j) ==
    IF rendered[j].part.resp.x.uriPath # <<>>
    THEN to_relative_path(rendered[j].part.resp.x.uriPath)
    ELSE STR_Unknown_File

\* the latest codeblockUri or textEditGroup entry before entry k, 0 if none
LastPathEventBefore(k) ==
    LET S == {j \in (UriEntries \cup EditEntries) : j < k}
    IN  IF S = {} THEN 0 ELSE max_of(S)

\* a path is recorded when entry k is rendered: the latest codeblockUri before
\* k has no textEditGroup after it
PathRecordedAt(k) ==
    /\ LastPathEventBefore(k) # 0
    /\ LastPathEventBefore(k) \in UriEntries

\* C22: the last edit path is cleared after every textEditGroup segment is
\* rendered: right after one it is None, and of two textEditGroup segments
\* with no codeblockUri between them, the first labelled with a recorded path,
\* the second is not labelled with that path.
C22_EditPathClearedAfterUse ==
    /\ (Len(rendered) > 0 /\ Len(rendered) \in EditEntries)
          => last_edit_path = EditPathNone
    /\ \A k \in LabelledEdits : \A j \in EditEntries :
          (/\ j < k
           /\ PathRecordedAt(j)
           /\ \A u \in UriEntries : ~(j < u /\ u < k))
              => \A p \in LabelWrites(k) :
                    md_file[p].s # RecordedBy(LastPathEventBefore(j))

\* a codeblockUri with a path under the project root, then two textEditGroup
\* segments in one turn: the first is labelled with the relative path, the
\* second is not
C22_Witness ==
    \E j, k \in LabelledEdits :
        /\ k = j + 1
        /\ (j - 1) \in UriEntries
        /\ rendered[j - 1].part.resp.x.uriPath = PATH_file
        /\ PROJECT_ROOT # <<>>
        /\ \A p \in LabelWrites(j) : md_file[p].s = <<"f">>
        /\ \A p \in LabelWrites(k) : md_file[p].s # <<"f">>

\* the paths recorded by the codeblockUri segments of the turns before entry k's
RecordedInEarlierTurns(k) ==
    {RecordedBy(j) : j \in {u \in UriEntries : rendered[u].turn < rendered[k].turn}}

\* C23: the path recorded by a codeblockUri segment is used only by a
\* textEditGroup that follows it in the same turn: a textEditGroup that no
\* codeblockUri precedes in its own turn, be it in a later turn of the same
\* file or in a later group's file, is never labelled with a path recorded by
\* a codeblockUri of an earlier turn.
C23_RecordedPathStaysInItsTurn ==
    \A k \in LabelledEdits :
        (\A u \in UriEntries : ~(rendered[u].turn = rendered[k].turn /\ u < k))
            => \A p \in LabelWrites(k) :
                  md_file[p].s \notin RecordedInEarlierTurns(k)

\* C25: a textEditGroup segment rendered while no edit path is recorded is
\* always labelled "Code Block", whether no codeblockUri was seen before it
\* or the recorded path was cleared by an earlier textEditGroup.
C25_NoPathMeansCodeBlock ==
    \A k \in LabelledEdits :
        ~PathRecordedAt(k)
            => \A p \in LabelWrites(k) : md_file[p].s = STR_Code_Block

(***************************************************************************)
(* Rendering thinking segments: the summary title of a folded block        *)
(***************************************************************************)
\* a thinking segment with an explicit title and a bold first line
EV_think_both ==
    [Ev("thinking", TRUE, <<"*", "*", "C", "*", "*", "\n", "y">>) EXCEPT !.x.generatedTitle = <<"H">>]

ThinkingEvents ==
    {EV_text_a, EV_thinking, EV_think_titled, EV_think_bold, EV_think_both}

RenderThinkingPart == RenderPartFrom(ThinkingEvents)

NextRenderThinking ==
    \/ RenderBeginTurn
    \/ RenderThinkingPart
    \/ RenderEndTurn

SpecRenderThinking == InitRender /\ [][NextRenderThinking]_vars

\* the thinking blocks written in fold style
FoldedBlocks ==
    {p \in DOMAIN md_file : md_file[p].w = "thinking" /\ config.html_style}

\* the explicit title of buffered segment i of the block written at p
ExplicitTitle(p, i) == RenderedAt(md_file[p].turn, i).resp.x.generatedTitle

\* the first line of the stripped body of buffered segment i of the block at p
FirstLine(p, i) ==
    split(strip(value_of(RenderedAt(md_file[p].turn, i).resp)), "\n")[1]

\* the bold leading line of the body of segment i, without its asterisks and
\* stripped; empty if the body has none
BoldTitle(p, i) ==
    IF startswith(FirstLine(p, i), STR_bold) /\ endswith(FirstLine(p, i), STR_bold)
    THEN strip(slice_2_m2(FirstLine(p, i)))
    ELSE <<>>

\* the buffered segments of the block at p that have an explicit title, a
\* bold leading line, or one of the two
WithExplicit(p) == {i \in Elems(md_file[p].src) : ExplicitTitle(p, i) # <<>>}
WithBold(p) == {i \in Elems(md_file[p].src) : BoldTitle(p, i) # <<>>}
WithTitle(p) ==
    {i \in Elems(md_file[p].src) :
        ExplicitTitle(p, i) # <<>> \/ BoldTitle(p, i) # <<>>}

\* the title segment i offers: its explicit title, else its bold leading line
OfferedTitle(p, i) ==
    IF ExplicitTitle(p, i) # <<>> THEN ExplicitTitle(p, i) ELSE BoldTitle(p, i)

AllRunsWritten == \A k \in DOMAIN runs : runs[k].outcome = "written"

\* C26: after any sequence of successful runs on the same output path, the
\* turn-output files present in the output directory are exactly the files
\* of the latest run's grouping; no file of an earlier run with a different
\* turn-range suffix remains next to them.
C26_OnlyFilesOfLatestRun ==
    (RunWritten /\ AllRunsWritten)
        => {f.name : f \in turn_files} = {ExpectedName(groups[k]) : k \in DOMAIN groups}

=============================================================================
